---- MODULE Spec2Model ----
(***************************************************************************)
(* Model of the slice algebra and the cycle finder of                      *)
(* analysis_engine/library.py (Python 2, numpy masked arrays).             *)
(*                                                                         *)
(* The library is a set of pure functions. Each specification below draws  *)
(* the arguments of a call from a bounded set (Init) and has one action    *)
(* per call; a loop of the source is one action per iteration.             *)
(*                                                                         *)
(*   call    the function being run or last returned (position of control) *)
(*   args    the arguments of the call, a record                           *)
(*   locals  the local variables / intermediate values of the call         *)
(*   ret     the value returned                                            *)
(***************************************************************************)
EXTENDS Integers, Sequences, FiniteSets, TLC

VARIABLES call, args, locals, ret

vars == <<call, args, locals, ret>>

(***************************************************************************)
(* Bounds of the model.                                                    *)
(***************************************************************************)
\* Interval bounds are drawn from 0..MaxIndex.
MaxIndex == 4

(***************************************************************************)
(* Python values.                                                          *)
(***************************************************************************)
\* Python 2 orders None below every number, so min(), max(), < and > accept
\* it (library.py 3202-3217 rely on this). None is a number below every
\* index of the model: comparisons then behave as in Python 2. Arithmetic on
\* None (a TypeError in Python) is guarded wherever the source guards it.
None == -99

\* slice(start, stop, step)
Slice3(start, stop, step) == [start |-> start, stop |-> stop, step |-> step]

\* slice(start, stop)
Slice(start, stop) == Slice3(start, stop, None)

\* What a call gives back: a list, None (a bare "return"), or an exception.
List(s) == [tag |-> "list", v |-> s]

NoneResult == [tag |-> "None", v |-> <<>>]

Raise(e) == [tag |-> e, v |-> <<>>]

NoLocals == [none |-> TRUE]

Min2(x, y) == IF x <= y THEN x ELSE y

Max2(x, y) == IF x >= y THEN x ELSE y

\* min() / max() of a non-empty list of numbers (None the smallest)
MinOf(S) == CHOOSE x \in S : \A y \in S : x <= y

MaxOf(S) == CHOOSE x \in S : \A y \in S : x >= y

Range(s) == {s[i] : i \in 1..Len(s)}

(***************************************************************************)
(* numpy: a workspace array is a sequence of 0/1 (element i of the array   *)
(* is w[i+1]); after masked_equal(workspace, 1) the 1s are the masked      *)
(* samples.                                                                *)
(***************************************************************************)
\* np.ma.zeros(n)
Zeros(n) == [i \in 1..n |-> 0]

\* Python's clipping of a non-negative slice bound to the array length.
ClipBound(x, n, dflt) == IF x = None THEN dflt ELSE Min2(x, n)

\* workspace[each_slice] = 1 for a reverse slice (step -1): the samples
\* from start down to stop + 1, None standing for the end of the array and
\* for its start.
MarkReverse(w, s) ==
    LET hi == IF s.start = None THEN Len(w) - 1 ELSE Min2(s.start, Len(w) - 1)
        lo == IF s.stop = None THEN -1 ELSE s.stop
    IN [i \in 1..Len(w) |-> IF lo < i - 1 /\ i - 1 <= hi THEN 1 ELSE w[i]]

\* workspace[each_slice] = 1
Mark(w, s) ==
    LET lo == ClipBound(s.start, Len(w), 0)
        hi == ClipBound(s.stop, Len(w), Len(w))
    IN IF s.step = -1 THEN MarkReverse(w, s)
       ELSE [i \in 1..Len(w) |-> IF lo < i /\ i <= hi THEN 1 ELSE w[i]]

RECURSIVE MarkAll(_, _)
\* for each_slice in slice_list: workspace[each_slice] = 1
MarkAll(w, slice_list) ==
    IF slice_list = <<>> THEN w
    ELSE MarkAll(Mark(w, Head(slice_list)), Tail(slice_list))

\* workspace[startpoint:endpoint]
Window(w, startpoint, endpoint) ==
    LET lo == Min2(startpoint, Len(w))
        hi == Min2(endpoint, Len(w))
    IN IF hi <= lo THEN <<>> ELSE [i \in 1..(hi - lo) |-> w[lo + i]]

\* masked_equal shrinks a mask with no masked sample to nomask.
NoMask(w) == \A i \in 1..Len(w) : w[i] = 0

RECURSIVE Clump(_, _, _, _)
\* Left-to-right scan for the runs of samples equal to bit, a run at a time:
\* i is the array index the scan has reached, the next run starts at the
\* first sample equal to bit from there and stops before the next sample
\* that differs, or at the end of the array.
Clump(w, bit, i, acc) ==
    LET starts == {j \in i..(Len(w) - 1) : w[j + 1] = bit}
    IN IF starts = {} THEN acc
       ELSE LET from == CHOOSE j \in starts : \A k \in starts : j <= k
                stops == {j \in (from + 1)..Len(w) : j = Len(w) \/ w[j + 1] # bit}
                to == CHOOSE j \in stops : \A k \in stops : j <= k
            IN Clump(w, bit, to, Append(acc, Slice(from, to)))

\* np.ma.clump_unmasked(a): an array without a mask is one run of its size.
clump_unmasked(w, nomask) ==
    IF nomask THEN <<Slice(0, Len(w))>> ELSE Clump(w, 0, 0, <<>>)

\* np.ma.clump_masked(a): an array without a mask has no masked run.
clump_masked(w, nomask) ==
    IF nomask THEN <<>> ELSE Clump(w, 1, 0, <<>>)

(***************************************************************************)
(* shift_slice / shift_slices                                              *)
(***************************************************************************)
\* shift_slice keeping only slices wider than one sample (> 1 for >= 1).
shift_slice_strict(this_slice, offset) ==
    IF offset = 0 THEN <<this_slice>>
    ELSE LET start == IF this_slice.start = None THEN None
                      ELSE this_slice.start + offset
             stop == IF this_slice.stop = None THEN None
                     ELSE this_slice.stop + offset
         IN IF start = None \/ stop = None \/ (stop - start) > 1
            THEN <<Slice3(start, stop, this_slice.step)>>
            ELSE <<>>

\* Returns the shifted slice as a list of one, or the empty list for None.
shift_slice(this_slice, offset) ==
    IF offset = 0 THEN <<this_slice>>
    ELSE LET start == IF this_slice.start = None THEN None
                      ELSE this_slice.start + offset
             stop == IF this_slice.stop = None THEN None
                     ELSE this_slice.stop + offset
         IN IF start = None \/ stop = None \/ (stop - start) >= 1
            THEN <<Slice3(start, stop, this_slice.step)>>
            ELSE <<>>

RECURSIVE ShiftEach(_, _)
ShiftEach(slicelist, offset) ==
    IF slicelist = <<>> THEN <<>>
    ELSE shift_slice(Head(slicelist), offset) \o ShiftEach(Tail(slicelist), offset)

\* shift_slices that forgets the shift and hands the list back.
shift_slices_unshifted(slicelist, offset) == slicelist

shift_slices(slicelist, offset) ==
    IF offset # 0 THEN ShiftEach(slicelist, offset) ELSE slicelist

(***************************************************************************)
(* slices_not                                                              *)
(***************************************************************************)
slices_not(slice_list, begin_at, end_at) ==
    IF slice_list = <<>> THEN List(<<Slice(begin_at, end_at)>>)
    ELSE
    LET a == MinOf({s.start : s \in Range(slice_list)})
        b == MinOf({s.stop : s \in Range(slice_list)})
        steps == MaxOf({s.step : s \in Range(slice_list)})
        sp0 == IF b = None THEN a ELSE Min2(a, b)
        sp1 == IF begin_at # None /\ begin_at < sp0 THEN begin_at ELSE sp0
        startpoint == IF sp1 = None THEN 0 ELSE sp1
        c == MaxOf({s.start : s \in Range(slice_list)})
        d == MaxOf({s.stop : s \in Range(slice_list)})
        ep0 == Max2(c, d)
        endpoint == IF end_at # None /\ end_at > ep0 THEN end_at ELSE ep0
    IN IF steps > 1 THEN Raise("ValueError")
       ELSE IF endpoint = None THEN Raise("IndexError")
       ELSE IF \E s \in Range(slice_list) : s.step = 0 THEN Raise("ValueError")
       ELSE LET workspace == MarkAll(Zeros(endpoint), slice_list)
            IN List(shift_slices(
                        clump_unmasked(Window(workspace, startpoint, endpoint),
                                       NoMask(workspace)),
                        startpoint))

(***************************************************************************)
(* slices_or                                                               *)
(***************************************************************************)
RECURSIVE OrStops(_, _)
\* The scan of one slice list for b, the largest stop: a slice with a None
\* stop ends the scan of its list ("break").
OrStops(slice_list, b) ==
    IF slice_list = <<>> THEN b
    ELSE IF Head(slice_list).stop = None THEN b
    ELSE OrStops(Tail(slice_list),
                 IF b = None THEN Head(slice_list).stop
                 ELSE Max2(b, Head(slice_list).stop))

RECURSIVE OrStopsAll(_, _)
OrStopsAll(slice_lists, b) ==
    IF slice_lists = <<>> THEN b
    ELSE OrStopsAll(Tail(slice_lists), OrStops(Head(slice_lists), b))

RECURSIVE MarkLists(_, _)
MarkLists(w, slice_lists) ==
    IF slice_lists = <<>> THEN w
    ELSE MarkLists(MarkAll(w, Head(slice_lists)), Tail(slice_lists))

\* begin_at / end_at are keyword arguments: None stands for "not passed".
slices_or(slice_lists, begin_at, end_at) ==
    IF Len(slice_lists) = 0 THEN NoneResult
    ELSE
    LET b == OrStopsAll(slice_lists, None)
        startpoint == IF begin_at # None THEN begin_at ELSE 0
        endpoint == IF end_at # None THEN end_at ELSE b
    IN IF startpoint >= 0 /\ endpoint > 0
       THEN IF b = None THEN Raise("IndexError")
            ELSE LET workspace == MarkLists(Zeros(b), slice_lists)
                 IN List(shift_slices(
                             clump_masked(Window(workspace, startpoint, endpoint),
                                          NoMask(workspace)),
                             startpoint))
       ELSE NoneResult

(***************************************************************************)
(* slices_overlap / slices_and                                             *)
(***************************************************************************)
\* TRUE / FALSE, or "ValueError" raised for a step below 1.
slices_overlap_raises(first_slice, second_slice) ==
    \/ first_slice.step # None /\ first_slice.step < 1
    \/ second_slice.step # None /\ second_slice.step < 1

\* slices_overlap with <= for <: intervals that only touch count as overlapping.
slices_overlap_touching(first_slice, second_slice) ==
    /\ (first_slice.start <= second_slice.stop) \/ (second_slice.stop = None)
    /\ (second_slice.start <= first_slice.stop) \/ (first_slice.stop = None)

slices_overlap(first_slice, second_slice) ==
    /\ (first_slice.start < second_slice.stop) \/ (second_slice.stop = None)
    /\ (second_slice.start < first_slice.stop) \/ (first_slice.stop = None)

\* fwd() of slices_and: a reverse slice turned forward.
fwd(s) ==
    IF s.step # None /\ s.step < 0
    THEN Slice3(s.stop + 1, Max2(s.start + 1, 0), 0 - s.step)
    ELSE s

\* The body of the double loop of slices_and for one pair.
AndPair(first_slice, second_slice) ==
    LET slice_1 == fwd(first_slice)
        slice_2 == fwd(second_slice)
    IN IF slices_overlap(slice_1, slice_2)
       THEN LET slice_start == Max2(slice_1.start, slice_2.start)
                slice_stop == IF slice_1.stop = None THEN slice_2.stop
                              ELSE IF slice_2.stop = None THEN slice_1.stop
                              ELSE Min2(slice_1.stop, slice_2.stop)
            IN <<Slice(slice_start, slice_stop)>>
       ELSE <<>>

RECURSIVE AndInner(_, _)
AndInner(first_slice, second_list) ==
    IF second_list = <<>> THEN <<>>
    ELSE AndPair(first_slice, Head(second_list))
         \o AndInner(first_slice, Tail(second_list))

RECURSIVE AndOuter(_, _)
AndOuter(first_list, second_list) ==
    IF first_list = <<>> THEN <<>>
    ELSE AndInner(Head(first_list), second_list)
         \o AndOuter(Tail(first_list), second_list)

slices_and(first_list, second_list) == List(AndOuter(first_list, second_list))

(***************************************************************************)
(* slices_remove_small_gaps / slices_remove_small_slices                   *)
(***************************************************************************)
RECURSIVE MergeGaps(_, _, _)
\* The loop over slice_list[1:], new_list being built.
MergeGaps(new_list, rest, sample_limit) ==
    IF rest = <<>> THEN new_list
    ELSE LET each_slice == Head(rest)
             last == new_list[Len(new_list)]
         IN IF each_slice.start - last.stop < sample_limit
            THEN MergeGaps([new_list EXCEPT ![Len(new_list)] =
                                Slice(last.start, each_slice.stop)],
                           Tail(rest), sample_limit)
            ELSE MergeGaps(Append(new_list, each_slice), Tail(rest), sample_limit)

slices_remove_small_gaps(slice_list, time_limit, hz) ==
    LET sample_limit == time_limit * hz
    IN IF Len(slice_list) < 2 THEN slice_list
       ELSE MergeGaps(<<Head(slice_list)>>, Tail(slice_list), sample_limit)

RECURSIVE KeepLonger(_, _)
\* The loop of slices_remove_small_slices.
KeepLonger(slice_list, sample_limit) ==
    IF slice_list = <<>> THEN <<>>
    ELSE LET each_slice == Head(slice_list)
         IN (IF each_slice.stop - each_slice.start > sample_limit
             THEN <<each_slice>> ELSE <<>>)
            \o KeepLonger(Tail(slice_list), sample_limit)

RECURSIVE RemoveWhileIterating(_, _)
\* The loop written as a removal from the list being iterated: the element
\* after a removed one is skipped by the iterator and stays.
RemoveWhileIterating(slice_list, sample_limit) ==
    IF slice_list = <<>> THEN <<>>
    ELSE LET each_slice == Head(slice_list)
         IN IF each_slice.stop - each_slice.start > sample_limit
            THEN <<each_slice>> \o RemoveWhileIterating(Tail(slice_list), sample_limit)
            ELSE IF Len(slice_list) = 1 THEN <<>>
            ELSE <<slice_list[2]>>
                 \o RemoveWhileIterating(Tail(Tail(slice_list)), sample_limit)

\* slices_remove_small_slices removing from the list it iterates over.
slices_remove_small_slices_in_place(slice_list, time_limit, hz, count) ==
    LET sample_limit == IF count # None /\ count # 0 THEN count ELSE time_limit * hz
    IN RemoveWhileIterating(slice_list, sample_limit)

\* "if count:" is false for count=None and for count=0.
slices_remove_small_slices(slice_list, time_limit, hz, count) ==
    LET sample_limit == IF count # None /\ count # 0 THEN count ELSE time_limit * hz
    IN KeepLonger(slice_list, sample_limit)

(***************************************************************************)
(* is_slice_within_slice                                                   *)
(***************************************************************************)
\* entire_slice_within_slice(), the within_use='slice' branch
entire_slice_within_slice(inner_slice, outer_slice) ==
    IF outer_slice.start = None /\ outer_slice.stop = None THEN TRUE
    ELSE IF inner_slice.start = None /\ outer_slice.start # None THEN FALSE
    ELSE IF inner_slice.stop = None /\ outer_slice.stop # None THEN FALSE
    ELSE IF inner_slice.start = None /\ outer_slice.start = None
         THEN inner_slice.stop < outer_slice.stop
    ELSE IF outer_slice.stop = None /\ outer_slice.stop = None
         THEN inner_slice.start >= outer_slice.start
    ELSE LET start_within == /\ outer_slice.start <= inner_slice.start
                             /\ inner_slice.start <= outer_slice.stop
             stop_within == /\ outer_slice.start <= inner_slice.stop
                            /\ inner_slice.stop <= outer_slice.stop
         IN start_within /\ stop_within

(***************************************************************************)
(* cycle_finder. A masked array is a record of two sequences, data and     *)
(* mask (TRUE for a masked sample); element i of the array is data[i+1].   *)
(* idxs holds array indices, counted from 0 as in the source.              *)
(***************************************************************************)
Abs(x) == IF x < 0 THEN 0 - x ELSE x

\* np.delete(s, i) for an index i counted from 0
Delete(s, i) == SubSeq(s, 1, i) \o SubSeq(s, i + 2, Len(s))

\* np.delete(s, slice(i, i + 2))
Delete2(s, i) == SubSeq(s, 1, i) \o SubSeq(s, i + 3, Len(s))

\* np.ediff1d(vals)
ediff1d(vals) == [k \in 1..(Len(vals) - 1) |-> vals[k + 1] - vals[k]]

\* x = np.ma.ediff1d(array, to_begin=0.0): x[i] is masked when either of its
\* two samples is; XValid / XValue give mask and value of x[i].
XValid(array, i) == i = 0 \/ (~array.mask[i + 1] /\ ~array.mask[i])

XValue(array, i) == IF i = 0 THEN 0 ELSE array.data[i + 1] - array.data[i]

RECURSIVE AscendingSeq(_)
\* The members of a set of numbers as an ascending sequence.
AscendingSeq(S) ==
    IF S = {} THEN <<>>
    ELSE LET m == MinOf(S) IN <<m>> \o AscendingSeq(S \ {m})

\* y = np.ma.nonzero(x)[0]: where x is valid and not zero
NonZeroDiffs(array) ==
    AscendingSeq({i \in 0..(Len(array.data) - 1) :
                     XValid(array, i) /\ XValue(array, i) # 0})

\* idxs = y[np.nonzero(np.ma.maximum(peak, 0.0))], peak = -z[:-1] * z[1:]
TurningPoints(array) ==
    LET y == NonZeroDiffs(array)
        z == [k \in 1..Len(y) |-> XValue(array, y[k])]
        turns == {k \in 1..(Len(y) - 1) : (0 - z[k]) * z[k + 1] > 0}
        ks == AscendingSeq(turns)
    IN [j \in 1..Len(ks) |-> y[ks[j]]]

DataAt(array, idxs) == [j \in 1..Len(idxs) |-> array.data[idxs[j] + 1]]

\* np.ma.count(array)
Count(array) == Cardinality({i \in 1..Len(array.mask) : ~array.mask[i]})

\* np.ma.flatnotmasked_edges(array)
FirstValid(array) == MinOf({i \in 0..(Len(array.mask) - 1) : ~array.mask[i + 1]})

LastValid(array) == MaxOf({i \in 0..(Len(array.mask) - 1) : ~array.mask[i + 1]})

\* The first end point put in front; "if the end two are in line, scrub the
\* middle one" (the try fails, and nothing is scrubbed, below three values).
WithFirst(array, p) ==
    LET first == FirstValid(array)
        idxs == <<first>> \o p.idxs
        vals == <<array.data[first + 1]>> \o p.vals
    IN IF Len(vals) >= 3 /\ (vals[3] - vals[2]) * (vals[2] - vals[1]) >= 0
       THEN [idxs |-> Delete(idxs, 1), vals |-> Delete(vals, 1)]
       ELSE [idxs |-> idxs, vals |-> vals]

\* The last end point appended, and the same scrub at that end.
WithLast(array, p) ==
    LET last == LastValid(array)
        idxs == Append(p.idxs, last)
        vals == Append(p.vals, array.data[last + 1])
        n == Len(vals)
    IN IF n >= 3 /\ (vals[n - 2] - vals[n - 1]) * (vals[n - 1] - vals[n]) >= 0
       THEN [idxs |-> Delete(idxs, n - 2), vals |-> Delete(vals, n - 2)]
       ELSE [idxs |-> idxs, vals |-> vals]

\* library.py 983-1020: the peaks and troughs before the small cycles are
\* removed, with dvals = np.ediff1d(vals).
FindPeaks(array, include_ends) ==
    LET idxs == TurningPoints(array)
        p0 == [idxs |-> idxs, vals |-> DataAt(array, idxs)]
        p == IF include_ends /\ Count(array) > 0
             THEN WithLast(array, WithFirst(array, p0))
             ELSE p0
    IN [idxs |-> p.idxs, vals |-> p.vals, dvals |-> ediff1d(p.vals)]

\* np.min(abs(dvals))
MinAbs(dvals) == MinOf({Abs(dvals[k]) : k \in 1..Len(dvals)})

\* np.argmin(abs(dvals)): the first index (from 0) of the smallest
ArgMinAbs(dvals) ==
    MinOf({k \in 1..Len(dvals) : Abs(dvals[k]) = MinAbs(dvals)}) - 1

\* The loop body deleting, in its last case, the value before the last one
\* (index last - 1 for last: "one fewer dval than val" forgotten).
RemoveReversalOffByOne(l) ==
    LET sort_idx == ArgMinAbs(l.dvals)
        last == Len(l.dvals)
    IN IF sort_idx = 0
       THEN [idxs |-> Delete(l.idxs, 0), vals |-> Delete(l.vals, 0),
             dvals |-> Delete(l.dvals, 0)]
       ELSE IF sort_idx = last - 1
       THEN [idxs |-> Delete(l.idxs, last - 1), vals |-> Delete(l.vals, last - 1),
             dvals |-> Delete(l.dvals, last - 1)]
       ELSE LET summed == [l.dvals EXCEPT ![sort_idx] =
                              l.dvals[sort_idx] + l.dvals[sort_idx + 1]
                              + l.dvals[sort_idx + 2]]
            IN [idxs |-> Delete2(l.idxs, sort_idx), vals |-> Delete2(l.vals, sort_idx),
                dvals |-> Delete2(summed, sort_idx)]

\* One pass of the body of the while loop, library.py 1022-1036.
RemoveReversal(l) ==
    LET sort_idx == ArgMinAbs(l.dvals)
        last == Len(l.dvals)
    IN IF sort_idx = 0
       THEN [idxs |-> Delete(l.idxs, 0), vals |-> Delete(l.vals, 0),
             dvals |-> Delete(l.dvals, 0)]
       ELSE IF sort_idx = last - 1
       THEN [idxs |-> Delete(l.idxs, last), vals |-> Delete(l.vals, last),
             dvals |-> Delete(l.dvals, last - 1)]
       ELSE LET summed == [l.dvals EXCEPT ![sort_idx] =
                              l.dvals[sort_idx] + l.dvals[sort_idx + 1]
                              + l.dvals[sort_idx + 2]]
            IN [idxs |-> Delete2(l.idxs, sort_idx), vals |-> Delete2(l.vals, sort_idx),
                dvals |-> Delete2(summed, sort_idx)]

\* The condition of the while loop.
LoopCondition(l, min_step) == Len(l.dvals) > 0 /\ MinAbs(l.dvals) < min_step

(***************************************************************************)
(* Inputs: the interval lists a Phase holds. Intervals are non-empty, in   *)
(* ascending order and do not overlap; only the first start and the last   *)
(* stop may be open (None).                                                *)
(***************************************************************************)
\* An interval list holds at most MaxSlices intervals.
MaxSlices == 3

ConcreteSlices ==
    {Slice(p[1], p[2]) :
        p \in {q \in (0..MaxIndex) \X (0..MaxIndex) : q[1] < q[2]}}

IsAscending(L) == \A k \in 1..(Len(L) - 1) : L[k].stop <= L[k + 1].start

ConcreteLists ==
    {L \in UNION {[1..n -> ConcreteSlices] : n \in 0..MaxSlices} : IsAscending(L)}

OpenStop(L) == [L EXCEPT ![Len(L)].stop = None]

OpenStart(L) == [L EXCEPT ![1].start = None]

OpenStopLists == {OpenStop(L) : L \in ConcreteLists \ {<<>>}}

OpenStartLists == {OpenStart(L) : L \in (ConcreteLists \cup OpenStopLists) \ {<<>>}}

PhaseLists == ConcreteLists \cup OpenStopLists \cup OpenStartLists

IsConcrete(L) == \A k \in 1..Len(L) : L[k].start # None /\ L[k].stop # None

(***************************************************************************)
(* Intervals as sets of indices, independent of the code above.            *)
(***************************************************************************)
\* Index i lies in the half-open interval s; an open bound is unbounded.
InSlice(i, s) ==
    /\ s.start = None \/ s.start <= i
    /\ s.stop = None \/ i < s.stop

Covered(L, i) == \E k \in 1..Len(L) : InSlice(i, L[k])

RunStarts(S) == {i \in S : (i - 1) \notin S}

RunStop(S, i) == MinOf({j \in (i + 1)..(MaxOf(S) + 1) : j \notin S})

RECURSIVE RunsFrom(_, _)
RunsFrom(S, starts) ==
    IF starts = {} THEN <<>>
    ELSE LET i == MinOf(starts)
         IN <<Slice(i, RunStop(S, i))>> \o RunsFrom(S, starts \ {i})

\* The maximal runs of consecutive indices of the set S, ascending.
MaximalRuns(S) == RunsFrom(S, RunStarts(S))

\* The start of an interval with None read as index 0.
Start0(s) == IF s.start = None THEN 0 ELSE s.start

(***************************************************************************)
(* SpecAnd: slices_and(A, B)                                               *)
(***************************************************************************)
\* The scenario of the documentation: slices_and([slice(0,10)], [slice(5,15)])
AndScenario == [A |-> <<Slice(0, 10)>>, B |-> <<Slice(5, 15)>>]

InitAnd ==
    /\ call = "start"
    /\ args \in [A : PhaseLists, B : PhaseLists] \cup {AndScenario}
    /\ locals = NoLocals
    /\ ret = NoneResult

CallSlicesAnd ==
    /\ call = "start"
    /\ call' = "slices_and"
    /\ ret' = slices_and(args.A, args.B)
    /\ UNCHANGED <<args, locals>>

NextAnd == CallSlicesAnd

SpecAnd == InitAnd /\ [][NextAnd]_vars

\* The largest concrete bound of two intervals (0 when there is none).
TopBound(a, b) == MaxOf({0, a.start, a.stop, b.start, b.stop})

\* The two intervals share an index.
ShareIndex(a, b) == \E i \in 0..(TopBound(a, b) + 1) : InSlice(i, a) /\ InSlice(i, b)

MinStop(a, b) ==
    IF a.stop = None THEN b.stop
    ELSE IF b.stop = None THEN a.stop ELSE Min2(a.stop, b.stop)

\* [max(a.start, b.start), min(a.stop, b.stop)), a None start counting as 0
Intersection(p) == [start |-> Max2(Start0(p[1]), Start0(p[2])),
                    stop |-> MinStop(p[1], p[2])]

PairShares(p) == ShareIndex(p[1], p[2])

PairsOf(A, B) ==
    [k \in 1..(Len(A) * Len(B)) |->
        <<A[((k - 1) \div Len(B)) + 1], B[((k - 1) % Len(B)) + 1]>>]

ExpectedAnd(A, B) ==
    LET hit == SelectSeq(PairsOf(A, B), PairShares)
    IN [k \in 1..Len(hit) |-> Intersection(hit[k])]

\* The intervals of a result as [start, stop) with a None start read as 0.
Intervals(L) == [k \in 1..Len(L) |-> [start |-> Start0(L[k]), stop |-> L[k].stop]]

\* C2: slices_and(A, B) returns, pair by pair, the interval
\* [max(a.start, b.start), min(a.stop, b.stop)) of every pair (a, b) that
\* shares an index (a None stop infinite, a None start 0) and nothing for a
\* pair that shares none; slices_and([slice(0,10)], [slice(5,15)]) is
\* [slice(5,10)].
C2_SlicesAndIsPairwiseIntersection ==
    call = "slices_and" =>
        /\ ret.tag = "list"
        /\ Intervals(ret.v) = ExpectedAnd(args.A, args.B)
        /\ args = AndScenario => ret.v = <<Slice(5, 10)>>

\* An open-ended interval met a concrete one and the scenario's call returned.
C2_Witness ==
    /\ call = "slices_and"
    /\ Len(args.A) = 2 /\ Len(args.B) = 2
    /\ args.A[2].stop = None
    /\ args.B[1].start = None
    /\ Len(ret.v) = 3

(***************************************************************************)
(* SpecComplement: slices_not(A, begin_at, end_at), and the round trips    *)
(* built on it.                                                            *)
(***************************************************************************)
\* The [begin_at, end_at) ranges of the model.
Ranges == {r \in [begin_at : 0..MaxIndex, end_at : 0..MaxIndex] : r.begin_at < r.end_at}

InitComplement ==
    /\ call = "start"
    /\ args \in {[A |-> L, begin_at |-> r.begin_at, end_at |-> r.end_at] :
                    L \in PhaseLists, r \in Ranges}
    /\ locals = NoLocals
    /\ ret = NoneResult

\* not_A = slices_not(A, begin_at, end_at)
CallSlicesNot ==
    /\ call = "start"
    /\ call' = "slices_not"
    /\ ret' = slices_not(args.A, args.begin_at, args.end_at)
    /\ UNCHANGED <<args, locals>>

\* both = slices_or(A, not_A)
CallOrOfNot ==
    /\ call = "slices_not"
    /\ ret.tag = "list"
    /\ call' = "slices_or(A, not_A)"
    /\ locals' = [not_A |-> ret.v]
    /\ ret' = slices_or(<<args.A, ret.v>>, None, None)
    /\ UNCHANGED args

\* slices_not(both, begin_at, end_at)
CallNotOfOr ==
    /\ call = "slices_or(A, not_A)"
    /\ ret.tag = "list"
    /\ call' = "slices_not(slices_or(A, not_A))"
    /\ ret' = slices_not(ret.v, args.begin_at, args.end_at)
    /\ UNCHANGED <<args, locals>>

\* slices_not(not_A, begin_at, end_at)
CallNotOfNot ==
    /\ call = "slices_not"
    /\ ret.tag = "list"
    /\ call' = "slices_not(not_A)"
    /\ locals' = [not_A |-> ret.v]
    /\ ret' = slices_not(ret.v, args.begin_at, args.end_at)
    /\ UNCHANGED args

NextComplement == CallSlicesNot \/ CallOrOfNot \/ CallNotOfOr \/ CallNotOfNot

SpecComplement == InitComplement /\ [][NextComplement]_vars

\* Every interval of L is concrete and lies inside [b, e).
Inside(L, b, e) ==
    /\ IsConcrete(L)
    /\ \A k \in 1..Len(L) : b <= L[k].start /\ L[k].stop <= e

\* No two consecutive intervals of L touch.
NonAdjacent(L) == \A k \in 1..(Len(L) - 1) : L[k].stop < L[k + 1].start

\* The indices of [b, e) that no interval of L covers.
Uncovered(L, b, e) == {i \in b..(e - 1) : ~Covered(L, i)}

\* C1 as stated: for every ascending, non-overlapping A inside [b, e),
\* slices_not(slices_or(A, slices_not(A, b, e)), b, e) equals A.
C1_RoundTripReturnsA ==
    (/\ call = "slices_not(slices_or(A, not_A))"
     /\ Inside(args.A, args.begin_at, args.end_at))
        => ret = List(args.A)

\* C1 amended: slices_or(A, slices_not(A, b, e)) covers [b, e), so the round
\* trip through slices_or returns the empty list for every such A; the round
\* trip that returns A is the double complement
\* slices_not(slices_not(A, b, e), b, e), for A whose intervals do not touch.
C1_DoubleComplementReturnsA ==
    /\ (/\ call = "slices_not(slices_or(A, not_A))"
        /\ Inside(args.A, args.begin_at, args.end_at))
           => ret = List(<<>>)
    /\ (/\ call = "slices_not(not_A)"
        /\ Inside(args.A, args.begin_at, args.end_at)
        /\ NonAdjacent(args.A))
           => ret = List(args.A)

\* The round trip of the claim on two separate intervals that start after
\* begin_at: the complement had two intervals, the union with A one.
C1_Witness ==
    /\ call = "slices_not(slices_or(A, not_A))"
    /\ Len(args.A) = 2
    /\ Inside(args.A, args.begin_at, args.end_at)
    /\ NonAdjacent(args.A)
    /\ args.begin_at < args.A[1].start
    /\ Len(locals.not_A) = 2
    /\ ret = List(<<>>)

\* C3: slices_not(A, begin_at, end_at) is exactly the maximal runs of the
\* indices of [begin_at, end_at) that no interval of A covers, wherever the
\* intervals of A lie; for an empty A it is [slice(begin_at, end_at)].
C3_SlicesNotIsComplementWithinRange ==
    call = "slices_not" =>
        ret = List(MaximalRuns(Uncovered(args.A, args.begin_at, args.end_at)))

(***************************************************************************)
(* SpecUnion: slices_or over one or two slice lists, with slices_and and   *)
(* slices_not called on open-ended intervals.                              *)
(***************************************************************************)
\* begin_at / end_at of a call: both left out, or a range.
NoRange == [begin_at |-> None, end_at |-> None]

OptionalRanges == Ranges \cup {NoRange}

\* One or two slice lists; an open stop in at most one of them.
SliceListTuples ==
    {<<L>> : L \in ConcreteLists \cup OpenStopLists}
    \cup {<<L, M>> : L \in ConcreteLists \cup OpenStopLists, M \in ConcreteLists}
    \cup {<<M, L>> : L \in OpenStopLists, M \in ConcreteLists}

OrArgs ==
    {[slice_lists |-> t, begin_at |-> r.begin_at, end_at |-> r.end_at] :
        t \in SliceListTuples, r \in OptionalRanges}

AndArgs == [first_list : OpenStopLists, second_list : ConcreteLists \cup OpenStopLists]

NotArgs ==
    {[slice_list |-> L, begin_at |-> r.begin_at, end_at |-> r.end_at] :
        L \in OpenStopLists, r \in OptionalRanges}

InitUnion ==
    /\ call = "start"
    /\ args \in OrArgs \cup AndArgs \cup NotArgs
    /\ locals = NoLocals
    /\ ret = NoneResult

UnionCallSlicesOr ==
    /\ call = "start"
    /\ "slice_lists" \in DOMAIN args
    /\ call' = "slices_or"
    /\ ret' = slices_or(args.slice_lists, args.begin_at, args.end_at)
    /\ UNCHANGED <<args, locals>>

UnionCallSlicesAnd ==
    /\ call = "start"
    /\ "first_list" \in DOMAIN args
    /\ call' = "slices_and"
    /\ ret' = slices_and(args.first_list, args.second_list)
    /\ UNCHANGED <<args, locals>>

UnionCallSlicesNot ==
    /\ call = "start"
    /\ "slice_list" \in DOMAIN args
    /\ call' = "slices_not"
    /\ ret' = slices_not(args.slice_list, args.begin_at, args.end_at)
    /\ UNCHANGED <<args, locals>>

NextUnion == UnionCallSlicesOr \/ UnionCallSlicesAnd \/ UnionCallSlicesNot

SpecUnion == InitUnion /\ [][NextUnion]_vars

\* Index i is inside the [begin_at, end_at) of the call (None leaves the
\* side unrestricted).
InRange(i, begin_at, end_at) ==
    /\ begin_at = None \/ begin_at <= i
    /\ end_at = None \/ i < end_at

CoveredByAny(slice_lists, i) ==
    \E n \in 1..Len(slice_lists) : Covered(slice_lists[n], i)

\* The indices some input interval covers, inside the range of the call.
UnionIndices(slice_lists, begin_at, end_at) ==
    {i \in 0..MaxIndex : CoveredByAny(slice_lists, i) /\ InRange(i, begin_at, end_at)}

\* C4: slices_or over lists of intervals with concrete non-negative bounds
\* returns the maximal runs of their union (ascending, disjoint, not
\* touching, covering exactly the indices of the inputs), restricted to
\* [begin_at, end_at) when given.
C4_SlicesOrIsUnionRuns ==
    (/\ call = "slices_or"
     /\ \A n \in 1..Len(args.slice_lists) : IsConcrete(args.slice_lists[n]))
        => ret = List(MaximalRuns(
                        UnionIndices(args.slice_lists, args.begin_at, args.end_at)))

\* The indices from the start of an interval up to the edge of the model's
\* data, one past the largest index an input can name.
Onward(s) == Start0(s)..(MaxIndex + 1)

\* C5: an input interval with a None stop continues to the edge of the
\* data: slices_or keeps every index from its start onward covered,
\* slices_not keeps every such index out of the complement, slices_and
\* keeps every such index that the other list covers; none of them raises
\* or returns no result.
C5_OpenStopContinuesToEdge ==
    /\ call = "slices_or" =>
          \A n \in 1..Len(args.slice_lists) :
            \A k \in 1..Len(args.slice_lists[n]) :
              LET s == args.slice_lists[n][k]
              IN s.stop = None =>
                   /\ ret.tag = "list"
                   /\ \A i \in Onward(s) :
                        InRange(i, args.begin_at, args.end_at) => Covered(ret.v, i)
    /\ call = "slices_not" =>
          \A k \in 1..Len(args.slice_list) :
            LET s == args.slice_list[k]
            IN s.stop = None =>
                 /\ ret.tag = "list"
                 /\ \A i \in Onward(s) : ~Covered(ret.v, i)
    /\ call = "slices_and" =>
          \A k \in 1..Len(args.first_list) :
            LET s == args.first_list[k]
            IN s.stop = None =>
                 /\ ret.tag = "list"
                 /\ \A i \in Onward(s) :
                      Covered(args.second_list, i) => Covered(ret.v, i)

(***************************************************************************)
(* SpecSmall: slices_remove_small_gaps and slices_remove_small_slices      *)
(***************************************************************************)
\* time_limit is drawn from 0..MaxTimeLimit seconds.
MaxTimeLimit == 2

\* hz is drawn from 1..MaxHz samples per second.
MaxHz == 2

\* count is None (the default) or drawn from 0..MaxCount.
MaxCount == 2

InitSmall ==
    /\ call = "start"
    /\ args \in [slice_list : ConcreteLists, time_limit : 0..MaxTimeLimit,
                 hz : 1..MaxHz, count : {None} \cup 0..MaxCount]
    /\ locals = NoLocals
    /\ ret = NoneResult

CallRemoveSmallSlices ==
    /\ call = "start"
    /\ call' = "slices_remove_small_slices"
    /\ ret' = List(slices_remove_small_slices(args.slice_list, args.time_limit,
                                              args.hz, args.count))
    /\ UNCHANGED <<args, locals>>

\* slices_remove_small_gaps, then slices_remove_small_slices, with the same
\* time_limit and hz.
GapsThenSlices(slice_list) ==
    slices_remove_small_slices(
        slices_remove_small_gaps(slice_list, args.time_limit, args.hz),
        args.time_limit, args.hz, None)

CallGapsThenSlices ==
    /\ call = "start"
    /\ args.count = None
    /\ call' = "gaps_then_slices"
    /\ locals' = [gaps |-> slices_remove_small_gaps(args.slice_list,
                                                    args.time_limit, args.hz)]
    /\ ret' = List(GapsThenSlices(args.slice_list))
    /\ UNCHANGED args

\* The pair run again on its own output.
CallGapsThenSlicesAgain ==
    /\ call = "gaps_then_slices"
    /\ call' = "gaps_then_slices_again"
    /\ locals' = [first |-> ret.v]
    /\ ret' = List(GapsThenSlices(ret.v))
    /\ UNCHANGED args

NextSmall == CallRemoveSmallSlices \/ CallGapsThenSlices \/ CallGapsThenSlicesAgain

SpecSmall == InitSmall /\ [][NextSmall]_vars

\* C6: slices_remove_small_gaps followed by slices_remove_small_slices with
\* the same time_limit and hz is idempotent: run on its own output, the pair
\* returns that output unchanged.
C6_GapsThenSlicesIdempotent ==
    call = "gaps_then_slices_again" => ret.v = locals.first

\* The first run merged two intervals across a small gap and removed a
\* short third one; the second run had the merged interval to work on.
C6_Witness ==
    /\ call = "gaps_then_slices_again"
    /\ Len(args.slice_list) = 3
    /\ Len(locals.first) = 1
    /\ locals.first[1] \notin Range(args.slice_list)
    /\ locals.first[1].stop < args.slice_list[3].start
    /\ ret.v = locals.first

\* The limit of a call: count when count is given, else time_limit * hz.
LimitOf(a) == IF a.count # None THEN a.count ELSE a.time_limit * a.hz

NotShorter(s) == ~((s.stop - s.start) < LimitOf(args))

\* C7: slices_remove_small_slices returns, in order, exactly the intervals
\* whose length stop - start is not shorter than the limit (time_limit * hz
\* samples, or count when count is given).
C7_DropsExactlyTheShorter ==
    call = "slices_remove_small_slices" =>
        ret.v = SelectSeq(args.slice_list, NotShorter)

(***************************************************************************)
(* SpecShift: shift_slices(slicelist, offset)                              *)
(***************************************************************************)
\* offset is drawn from -1..MaxOffset.
MaxOffset == 2

\* Slices as interpolation leaves them: a width of zero is possible.
AnyWidthSlices ==
    {Slice(p[1], p[2]) :
        p \in {q \in (0..MaxIndex) \X (0..MaxIndex) : q[1] <= q[2]}}

AnyWidthLists ==
    {L \in UNION {[1..n -> AnyWidthSlices] : n \in 0..MaxSlices} : IsAscending(L)}

ShiftLists ==
    AnyWidthLists
    \cup {OpenStop(L) : L \in AnyWidthLists \ {<<>>}}
    \cup {OpenStart(L) : L \in AnyWidthLists \ {<<>>}}

InitShift ==
    /\ call = "start"
    /\ args \in [slicelist : ShiftLists, offset : (0 - 1)..MaxOffset]
    /\ locals = NoLocals
    /\ ret = NoneResult

CallShiftSlices ==
    /\ call = "start"
    /\ call' = "shift_slices"
    /\ ret' = List(shift_slices(args.slicelist, args.offset))
    /\ UNCHANGED <<args, locals>>

NextShift == CallShiftSlices

SpecShift == InitShift /\ [][NextShift]_vars

\* The width of the interval is unknown (an open bound) or at least 1.
WideEnough(s) == s.start = None \/ s.stop = None \/ s.stop - s.start >= 1

Translate(x, offset) == IF x = None THEN None ELSE x + offset

\* Every interval of L that is wide enough, translated by offset.
Translated(L, offset) ==
    LET kept == SelectSeq(L, WideEnough)
    IN [k \in 1..Len(kept) |->
          Slice3(Translate(kept[k].start, offset), Translate(kept[k].stop, offset),
                 kept[k].step)]

\* C8 as stated: for every offset, zero included, shift_slices returns the
\* intervals translated by offset, omitting exactly those of width below 1.
C8_ShiftDropsNarrowAtEveryOffset ==
    call = "shift_slices" => ret.v = Translated(args.slicelist, args.offset)

\* C8 amended: for every non-zero offset shift_slices returns the intervals
\* translated by offset (None bounds stay None), omitting exactly those of
\* width below 1; for offset zero it returns the list as it is, intervals of
\* width below 1 included.
C8_ShiftDropsNarrowAtNonZeroOffset ==
    call = "shift_slices" =>
        /\ args.offset # 0 => ret.v = Translated(args.slicelist, args.offset)
        /\ args.offset = 0 => ret.v = args.slicelist

\* A shift that dropped a zero-width interval and kept a one-sample and an
\* open-ended one.
C8_Witness ==
    /\ call = "shift_slices"
    /\ args.offset > 0
    /\ Len(args.slicelist) = 3
    /\ args.slicelist[1].stop - args.slicelist[1].start = 1
    /\ args.slicelist[2].stop = args.slicelist[2].start
    /\ args.slicelist[3].stop = None
    /\ Len(ret.v) = 2

(***************************************************************************)
(* SpecWithin: is_slice_within_slice(inner_slice, outer_slice)             *)
(***************************************************************************)
Bool(b) == [tag |-> "bool", v |-> b]

OpenOrIndex == {None} \cup 0..MaxIndex

WithinSlices ==
    {Slice(p[1], p[2]) :
        p \in {q \in OpenOrIndex \X OpenOrIndex :
                  q[1] = None \/ q[2] = None \/ q[1] <= q[2]}}

InitWithin ==
    /\ call = "start"
    /\ args \in [inner_slice : WithinSlices, outer_slice : WithinSlices]
    /\ locals = NoLocals
    /\ ret = NoneResult

CallIsSliceWithinSlice ==
    /\ call = "start"
    /\ call' = "is_slice_within_slice"
    /\ ret' = Bool(entire_slice_within_slice(args.inner_slice, args.outer_slice))
    /\ UNCHANGED <<args, locals>>

NextWithin == CallIsSliceWithinSlice

SpecWithin == InitWithin /\ [][NextWithin]_vars

\* The index x is concrete and not outside the bounds outer has.
BoundWithin(x, outer) ==
    /\ x # None
    /\ outer.start = None \/ outer.start <= x
    /\ outer.stop = None \/ x <= outer.stop

\* C9: is_slice_within_slice(inner, outer) is True only if both bounds of
\* inner are concrete and lie within outer; an inner interval with a None
\* bound is never within an outer that has a concrete bound on that side.
C9_WithinOnlyIfInnerConcrete ==
    call = "is_slice_within_slice" =>
        /\ ret.v => /\ BoundWithin(args.inner_slice.start, args.outer_slice)
                    /\ BoundWithin(args.inner_slice.stop, args.outer_slice)
        /\ (args.inner_slice.start = None /\ args.outer_slice.start # None) => ~ret.v
        /\ (args.inner_slice.stop = None /\ args.outer_slice.stop # None) => ~ret.v

(***************************************************************************)
(* SpecCycle: cycle_finder(array, min_step, include_ends), the removal     *)
(* loop one iteration per step.                                            *)
(***************************************************************************)
\* Arrays hold up to MaxLen samples.
MaxLen == 4

\* Samples are drawn from 0..MaxVal; min_step from 0..MaxVal + 1.
MaxVal == 2

\* Masks with at most one masked sample.
MasksOf(n) ==
    {[i \in 1..n |-> FALSE]} \cup {[i \in 1..n |-> i = j] : j \in 1..n}

Arrays ==
    UNION {{[data |-> d, mask |-> m] : d \in [1..n -> 0..MaxVal], m \in MasksOf(n)} :
              n \in 0..MaxLen}

Peaks(l) == [tag |-> "peaks", idxs |-> l.idxs, vals |-> l.vals]

InitCycle ==
    /\ call = "start"
    /\ args \in [array : Arrays, min_step : 0..(MaxVal + 1), include_ends : BOOLEAN]
    /\ locals = NoLocals
    /\ ret = NoneResult

\* if len(array) == 0: return None, None
CycleReturnNone ==
    /\ call = "start"
    /\ Len(args.array.data) = 0
    /\ call' = "done"
    /\ ret' = NoneResult
    /\ UNCHANGED <<args, locals>>

CycleFindPeaks ==
    /\ call = "start"
    /\ Len(args.array.data) > 0
    /\ call' = "loop"
    /\ locals' = FindPeaks(args.array, args.include_ends)
    /\ UNCHANGED <<args, ret>>

CycleRemoveReversal ==
    /\ call = "loop"
    /\ LoopCondition(locals, args.min_step)
    /\ locals' = RemoveReversal(locals)
    /\ UNCHANGED <<call, args, ret>>

CycleReturn ==
    /\ call = "loop"
    /\ ~LoopCondition(locals, args.min_step)
    /\ call' = "done"
    /\ ret' = Peaks(locals)
    /\ UNCHANGED <<args, locals>>

NextCycle == CycleReturnNone \/ CycleFindPeaks \/ CycleRemoveReversal \/ CycleReturn

SpecCycle == InitCycle /\ [][NextCycle]_vars

\* No two adjacent returned extrema differ by less than min_step.
NoSmallReversal ==
    \A k \in 1..(Len(ret.vals) - 1) :
        ~(Abs(ret.vals[k + 1] - ret.vals[k]) < args.min_step)

\* C10: for every non-empty series and every min_step >= 0 cycle_finder
\* terminates: every step of the removal loop either is a pass that leaves
\* the list of differences strictly shorter or is the return; and no two
\* adjacent extrema it returns differ in value by less than min_step.
C10_CycleFinderTerminatesWithoutSmallReversals ==
    /\ [][call = "loop" =>
            \/ call' = "loop" /\ Len(locals'.dvals) < Len(locals.dvals)
            \/ call' = "done" /\ ret'.tag = "peaks"]_vars
    /\ [](call = "done" /\ ret.tag = "peaks" => NoSmallReversal)

\* A reversal in the middle of the list was removed and two extrema that
\* differ by min_step or more were returned.
C10_Witness ==
    /\ call = "done"
    /\ ret.tag = "peaks"
    /\ args.min_step > 0
    /\ Len(FindPeaks(args.array, args.include_ends).vals) >= 4
    /\ Len(ret.vals) = 2
    /\ NoSmallReversal

\* The returned indices are strictly ascending.
StrictlyAscendingIdxs ==
    \A k \in 1..(Len(ret.idxs) - 1) : ret.idxs[k] < ret.idxs[k + 1]

\* Consecutive differences of the returned values are rises and falls in turn.
AlternatingVals ==
    LET d == ediff1d(ret.vals)
    IN /\ \A k \in 1..Len(d) : d[k] # 0
       /\ \A k \in 1..(Len(d) - 1) : (d[k] > 0) # (d[k + 1] > 0)

\* C11: the peak list cycle_finder returns has strictly ascending indices
\* and value differences that alternate in sign, for every series, masked
\* samples and plateaus included; an empty input returns (None, None).
C11_PeaksOrderedAndAlternating ==
    call = "done" =>
        IF Len(args.array.data) = 0
        THEN ret = NoneResult
        ELSE ret.tag = "peaks" /\ StrictlyAscendingIdxs /\ AlternatingVals

(***************************************************************************)
(* index_at_value(array, threshold, _slice, endpoint). Sample i of an      *)
(* array (counted from 0) is data[i + 1] with mask[i + 1]. The index       *)
(* returned is the rational number whole + num / den.                      *)
(***************************************************************************)
\* "x or d" of Python for a number or None: d when x is None or 0
OrElse(x, d) == IF x = None \/ x = 0 THEN d ELSE x

\* A bound of a slice made concrete for a sequence of n samples, as
\* slice.indices() does: a negative bound counts from the end, and the
\* bound is clipped to lo..hi.
SliceBound(x, n, lo, hi, default) ==
    IF x = None THEN default
    ELSE LET y == IF x < 0 THEN x + n ELSE x
         IN IF y < lo THEN lo ELSE IF y > hi THEN hi ELSE y

\* The indices array[_slice] selects from n samples, in the order selected
\* (step None, 1 or -1).
SliceIndices(_slice, n) ==
    IF _slice.step = -1
    THEN LET start == SliceBound(_slice.start, n, -1, n - 1, n - 1)
             stop == SliceBound(_slice.stop, n, -1, n - 1, -1)
         IN [k \in 1..Max2(start - stop, 0) |-> start - (k - 1)]
    ELSE LET start == SliceBound(_slice.start, n, 0, n, 0)
             stop == SliceBound(_slice.stop, n, 0, n, n)
         IN [k \in 1..Max2(stop - start, 0) |-> start + (k - 1)]

Valid(array, i) == ~array.mask[i + 1]

Value(array, i) == array.data[i + 1]

IndexResult(whole, num, den) == [tag |-> "index", whole |-> whole, num |-> num, den |-> den]

\* library.py 6024-6036: the limits of the scan and the two views compared
ScanLimits(_slice, max_index) ==
    IF _slice.step = -1
    THEN LET begin == Min2(OrElse(_slice.start, max_index), max_index - 1)
             end == Max2(OrElse(_slice.stop, 0), 0)
         IN [begin |-> begin, end |-> end,
             left |-> Slice3(begin, end, -1),
             right |-> Slice3(begin - 1, IF end > 0 THEN end - 1 ELSE None, -1)]
    ELSE LET begin == Max2(OrElse(_slice.start, 0), 0)
             end == Min2(OrElse(_slice.stop, max_index), max_index)
         IN [begin |-> begin, end |-> end,
             left |-> Slice3(begin, end - 1, 1),
             right |-> Slice3(begin + 1, end, 1)]

\* test_array as the pairs of indices compared, in scan order; the two views
\* have to be of one length, or one of them of length 1 (broadcast).
ComparedPairs(array, lim) ==
    LET n == Len(array.data)
        l == SliceIndices(lim.left, n)
        r == SliceIndices(lim.right, n)
    IN IF Len(l) = Len(r) THEN [ok |-> TRUE, pairs |-> [k \in 1..Len(l) |-> <<l[k], r[k]>>]]
       ELSE IF Len(l) = 1 THEN [ok |-> TRUE, pairs |-> [k \in 1..Len(r) |-> <<l[1], r[k]>>]]
       ELSE IF Len(r) = 1 THEN [ok |-> TRUE, pairs |-> [k \in 1..Len(l) |-> <<l[k], r[1]>>]]
       ELSE [ok |-> FALSE, pairs |-> <<>>]

\* An element of test_array is valid when both samples are and
\* (array[left] - threshold) * (array[right] - threshold) is not above 0.
TestValid(array, threshold, pair) ==
    /\ Valid(array, pair[1])
    /\ Valid(array, pair[2])
    /\ ~((Value(array, pair[1]) - threshold) * (Value(array, pair[2]) - threshold) > 0)

\* closest_unmasked_value(array, _slice.start or 0, _slice=_slice)[1], or
\* None where it raises IndexError (library.py 1252-1312).
closest_unmasked_value(array, _slice) ==
    LET n == Len(array.data)
        rev == _slice.step = -1
        S == OrElse(_slice.start, n)
        E == OrElse(_slice.stop, 0)
        inner == IF rev THEN Slice(n - S, n - E) ELSE Slice(_slice.start, _slice.stop)
        index == IF rev THEN n - S ELSE OrElse(_slice.start, 0)
        slice_start == OrElse(inner.start, 0)
        slice_stop == OrElse(inner.stop, n)
        sliced == SliceIndices(inner, n)
        \* array[::-1] holds sample n - 1 - j at position j
        at(k) == IF rev THEN n - 1 - sliced[k] ELSE sliced[k]
        valid == {k \in 1..Len(sliced) : Valid(array, at(k))}
        rel_index == index - slice_start
    IN IF index > slice_stop THEN None
       ELSE IF valid = {} \/ Abs(rel_index) > Len(sliced) THEN None
       ELSE LET dist == {Abs((k - 1) - rel_index) : k \in valid}
                relative_pos == MinOf({k \in valid : Abs((k - 1) - rel_index) = MinOf(dist)}) - 1
                p == relative_pos + slice_start
                pos == IF rev THEN n - p - 1 ELSE p
            IN IF pos < 0 \/ pos >= n THEN None
               ELSE IF Valid(array, pos) THEN Value(array, pos) ELSE None

\* diff = np.ma.ediff1d(array[_slice]); the first position where diff is
\* valid and has the given sign (-1 or 1), or None (IndexError in the code).
FirstDiffWhere(array, _slice, sign) ==
    LET sub == SliceIndices(_slice, Len(array.data))
        where == {k \in 1..(Len(sub) - 1) :
                     /\ Valid(array, sub[k])
                     /\ Valid(array, sub[k + 1])
                     /\ (Value(array, sub[k + 1]) - Value(array, sub[k])) * sign > 0}
    IN IF where = {} THEN None ELSE MinOf(where) - 1

\* library.py 6067-6083: endpoint 'closing' when nothing crosses
Closing(array, threshold, _slice, step) ==
    LET value == closest_unmasked_value(array, _slice)
    IN IF value = None THEN NoneResult
       ELSE LET first == FirstDiffWhere(array, _slice, IF threshold >= value THEN -1 ELSE 1)
            IN IF first # None
               THEN IndexResult(OrElse(_slice.start, 0) + step * first, 0, 1)
               ELSE IF _slice.stop # None /\ _slice.stop # 0
               THEN IndexResult(_slice.stop - step, 0, 1)
               ELSE IndexResult(Len(array.data) - 1, 0, 1)

\* library.py 6084-6086: endpoint 'nearest' when nothing crosses;
\* np.ma.argmin is the first valid position of the smallest, 0 when all
\* are masked, and raises ValueError on an empty selection.
Nearest(array, threshold, _slice, begin, step) ==
    LET sub == SliceIndices(_slice, Len(array.data))
        valid == {k \in 1..Len(sub) : Valid(array, sub[k])}
        dist(k) == Abs(Value(array, sub[k]) - threshold)
        argmin == IF valid = {} THEN 0
                  ELSE MinOf({k \in valid : \A j \in valid : dist(k) <= dist(j)}) - 1
    IN IF Len(sub) = 0 THEN Raise("ValueError")
       ELSE IndexResult(begin + step * argmin, 0, 1)

\* library.py 6090-6100: the first valid element of test_array, interpolated
Interpolated(array, threshold, pairs, begin, step) ==
    LET n == MinOf({k \in 1..Len(pairs) : TestValid(array, threshold, pairs[k])}) - 1
        a == Value(array, begin + step * n)
        b == Value(array, begin + step * (n + 1))
    IN IF a = b THEN IndexResult(begin + step * n, step, 2)
       ELSE IF b > a THEN IndexResult(begin + step * n, step * (threshold - a), b - a)
       ELSE IndexResult(begin + step * n, step * (a - threshold), a - b)

index_at_value(array, threshold, _slice, endpoint) ==
    LET step == OrElse(_slice.step, 1)
        max_index == Len(array.data)
        lim == ScanLimits(_slice, max_index)
        cmp == ComparedPairs(array, lim)
    IN IF step # 1 /\ step # -1 THEN Raise("ValueError")
       ELSE IF lim.begin = lim.end THEN NoneResult
       ELSE IF Abs(lim.begin - lim.end) < 2 THEN NoneResult
       ELSE IF ~cmp.ok THEN Raise("ValueError")
       ELSE IF Len(cmp.pairs) = 0 THEN NoneResult
       ELSE IF _slice.stop = _slice.start /\ _slice.start # None THEN NoneResult
       ELSE IF \A k \in 1..Len(cmp.pairs) : ~TestValid(array, threshold, cmp.pairs[k])
       THEN IF endpoint = "closing" THEN Closing(array, threshold, _slice, step)
            ELSE IF endpoint = "nearest"
            THEN Nearest(array, threshold, _slice, lim.begin, step)
            ELSE NoneResult
       ELSE Interpolated(array, threshold, cmp.pairs, lim.begin, step)

(***************************************************************************)
(* SpecIndexAtValue: one call of index_at_value.                           *)
(***************************************************************************)
\* Scanned arrays hold up to MaxScanLen samples.
MaxScanLen == 3

\* Sample values and thresholds.
Levels == {0, 1, 2}

ScanArrays ==
    UNION {{[data |-> d, mask |-> m] : d \in [1..n -> Levels], m \in MasksOf(n)} :
              n \in 0..MaxScanLen}

\* Slices over an array of n samples: forward or backward, each bound None
\* or an index of 0..n; one slice with a step the function refuses.
ScanSlices(n) ==
    {Slice3(a, b, s) : a \in {None} \cup 0..n, b \in {None} \cup 0..n, s \in {None, -1}}
        \cup {Slice3(None, None, 2)}

\* index_at_value(np.ma.arange(10), 4.5, slice(0, None)) with every number
\* doubled, which leaves the index found as it is.
IndexScenario ==
    [array |-> [data |-> [i \in 1..10 |-> 2 * (i - 1)], mask |-> [i \in 1..10 |-> FALSE]],
     threshold |-> 9, _slice |-> Slice3(0, None, None), endpoint |-> "exact"]

InitIndexAtValue ==
    /\ call = "start"
    /\ args \in {[array |-> a, threshold |-> t, _slice |-> s, endpoint |-> e] :
                    a \in ScanArrays, t \in Levels,
                    e \in {"exact", "closing", "nearest"},
                    s \in ScanSlices(MaxScanLen)}
                \cup {IndexScenario}
    /\ args._slice \in ScanSlices(Len(args.array.data)) \cup {IndexScenario._slice}
    /\ locals = NoLocals
    /\ ret = NoneResult

CallIndexAtValue ==
    /\ call = "start"
    /\ call' = "index_at_value"
    /\ ret' = index_at_value(args.array, args.threshold, args._slice, args.endpoint)
    /\ UNCHANGED <<args, locals>>

NextIndexAtValue == CallIndexAtValue

SpecIndexAtValue == InitIndexAtValue /\ [][NextIndexAtValue]_vars

\* The series passes or meets the threshold between samples i and j.
Crosses(array, threshold, i, j) ==
    /\ Valid(array, i)
    /\ Valid(array, j)
    /\ (Value(array, i) - threshold) * (Value(array, j) - threshold) <= 0

\* The samples of the interval in scan direction, both bounds of the slice
\* counted in (the widest reading of "the interval").
BoundsIncluded(_slice, n) ==
    IF _slice.step = -1
    THEN LET from == IF _slice.start = None THEN n - 1 ELSE Min2(_slice.start, n - 1)
             to == IF _slice.stop = None THEN 0 ELSE _slice.stop
         IN [k \in 1..Max2(from - to + 1, 0) |-> from - (k - 1)]
    ELSE LET from == IF _slice.start = None THEN 0 ELSE _slice.start
             to == IF _slice.stop = None THEN n - 1 ELSE Min2(_slice.stop, n - 1)
         IN [k \in 1..Max2(to - from + 1, 0) |-> from + (k - 1)]

\* The positions k where the series crosses between scan[k] and scan[k + 1].
CrossingsOf(array, threshold, scan) ==
    {k \in 1..(Len(scan) - 1) : Crosses(array, threshold, scan[k], scan[k + 1])}

\* The index returned lies between i and j and is where the straight line
\* through the two samples is at the threshold.
InterpolatedBetween(array, threshold, i, j) ==
    LET a == Value(array, i)
        b == Value(array, j)
        scaled == ret.whole * ret.den + ret.num
    IN /\ ret.tag = "index"
       /\ ret.den > 0
       /\ Min2(i, j) * ret.den <= scaled /\ scaled <= Max2(i, j) * ret.den
       /\ a # b => (scaled - i * ret.den) * (b - a) = (j - i) * (threshold - a) * ret.den

\* The index returned is of the first crossing of the scan and inside it.
FirstCrossingOf(array, threshold, scan) ==
    LET k == MinOf(CrossingsOf(array, threshold, scan))
        scaled == ret.whole * ret.den + ret.num
    IN /\ InterpolatedBetween(array, threshold, scan[k], scan[k + 1])
       /\ MinOf(Range(scan)) * ret.den <= scaled
       /\ scaled <= MaxOf(Range(scan)) * ret.den

\* C12: with endpoint 'exact' index_at_value returns None when the series
\* never crosses the threshold inside the interval, and otherwise the
\* linearly interpolated position of the first crossing in scan direction,
\* between the two bracketing samples and inside the interval; on
\* [0, 1, ..., 9] with threshold 4.5 and slice(0, None) it returns 4.5.
C12_ExactIsFirstCrossingOrNone ==
    (call = "index_at_value" /\ args.endpoint = "exact" /\ args._slice.step # 2) =>
        LET n == Len(args.array.data)
            widest == BoundsIncluded(args._slice, n)
            selected == SliceIndices(args._slice, n)
        IN /\ CrossingsOf(args.array, args.threshold, widest) = {} => ret = NoneResult
           /\ CrossingsOf(args.array, args.threshold, selected) # {} =>
                  FirstCrossingOf(args.array, args.threshold, selected)
           /\ ret.tag = "index" => FirstCrossingOf(args.array, args.threshold, widest)
           /\ args = IndexScenario => ret = IndexResult(4, 1, 2)

\* C12 away from three kinds of slice: a backward scan from start 0, a
\* forward scan to stop 0, and a backward scan of two samples down to 0.
C12_AwayFromZeroBounds ==
    \/ args._slice.step = -1 /\ args._slice.start = 0
    \/ args._slice.step # -1 /\ args._slice.stop = 0
    \/ /\ args._slice.step = -1
       /\ OrElse(args._slice.stop, 0) = 0
       /\ ScanLimits(args._slice, Len(args.array.data)).begin = 1
    \/ C12_ExactIsFirstCrossingOrNone

\* Over the whole scan the series does not move away from the threshold:
\* it never falls when it starts at or below it, never rises when above.
ApproachingThroughout(array, threshold, scan) ==
    /\ \A k \in 1..Len(scan) : Valid(array, scan[k])
    /\ \A k \in 1..(Len(scan) - 1) :
          IF threshold >= Value(array, scan[1])
          THEN Value(array, scan[k + 1]) >= Value(array, scan[k])
          ELSE Value(array, scan[k + 1]) <= Value(array, scan[k])

\* The call is a 'closing' scan of two samples or more that nowhere crosses.
ClosingWithoutCrossing ==
    /\ call = "index_at_value"
    /\ args.endpoint = "closing"
    /\ args._slice.step # 2
    /\ Len(SliceIndices(args._slice, Len(args.array.data))) >= 2
    /\ CrossingsOf(args.array, args.threshold,
                   BoundsIncluded(args._slice, Len(args.array.data))) = {}

\* C13: with endpoint 'closing' and no crossing in the interval the index
\* returned lies inside the scanned interval, and when the series
\* approaches the threshold over the whole scan it is the last scanned
\* index, for forward and for backward scans (a stop of None or 0 included).
C13_ClosingStaysInsideTheScan ==
    ClosingWithoutCrossing =>
        LET n == Len(args.array.data)
            widest == BoundsIncluded(args._slice, n)
            selected == SliceIndices(args._slice, n)
        IN /\ ret.tag = "index" =>
                 /\ ret.num = 0
                 /\ MinOf(Range(widest)) <= ret.whole
                 /\ ret.whole <= MaxOf(Range(widest))
           /\ ApproachingThroughout(args.array, args.threshold, selected) =>
                 /\ ret.tag = "index"
                 /\ ret.whole \in {selected[Len(selected)], widest[Len(widest)]}

\* C13 for forward scans to a stop other than 0 and for backward scans
\* that start at a sample of the array and end at a stop above 0.
C13_AwayFromOpenBackwardScans ==
    \/ /\ args._slice.step = -1
       /\ \/ OrElse(args._slice.stop, 0) = 0
          \/ OrElse(args._slice.start, 0) = 0
          \/ args._slice.start >= Len(args.array.data)
    \/ args._slice.step # -1 /\ args._slice.stop = 0
    \/ C13_ClosingStaysInsideTheScan

(***************************************************************************)
(* find_edges(array, _slice, direction). An edge integer + 0.5 is held as  *)
(* twice its value, an odd number.                                         *)
(***************************************************************************)
\* deltas = np.ma.ediff1d(array[_slice], to_begin=...); deltas[0] = 0:
\* element k (from 0) of deltas is valid and has this value.
DeltaValid(array, sub, k) ==
    k = 0 \/ (Valid(array, sub[k + 1]) /\ Valid(array, sub[k]))

DeltaValue(array, sub, k) ==
    IF k = 0 THEN 0 ELSE Value(array, sub[k + 1]) - Value(array, sub[k])

\* edges = np.ma.nonzero(...)[0] for the direction
Edges(array, sub, direction) ==
    AscendingSeq({k \in 0..(Len(sub) - 1) :
        /\ DeltaValid(array, sub, k)
        /\ CASE direction = "rising_edges" -> DeltaValue(array, sub, k) > 0
             [] direction = "falling_edges" -> DeltaValue(array, sub, k) < 0
             [] OTHER -> DeltaValue(array, sub, k) # 0})

\* The edge list with the start of the slice left out of the offset.
find_edges_unshifted(array, _slice, direction) ==
    LET sub == SliceIndices(_slice, Len(array.data))
        edges == Edges(array, sub, direction)
    IN List([j \in 1..Len(edges) |-> 2 * edges[j] - 1])

\* library.py 1642-1680; array[_slice][0] raises IndexError on an empty
\* selection.
find_edges(array, _slice, direction) ==
    LET sub == SliceIndices(_slice, Len(array.data))
        edges == Edges(array, sub, direction)
    IN IF Len(sub) = 0 THEN Raise("IndexError")
       ELSE IF direction \notin {"rising_edges", "falling_edges", "all_edges"}
       THEN Raise("ValueError")
       ELSE List([j \in 1..Len(edges) |-> 2 * (edges[j] + OrElse(_slice.start, 0)) - 1])

(***************************************************************************)
(* SpecEdges: one call of find_edges.                                      *)
(***************************************************************************)
EdgeSlices(n) ==
    {Slice3(a, b, None) : a \in {None} \cup 0..n, b \in {None} \cup 0..n}

\* find_edges(np.ma.array([0, 0, 1, 1, 0]), direction='rising_edges')
EdgeScenario ==
    [array |-> [data |-> <<0, 0, 1, 1, 0>>, mask |-> [i \in 1..5 |-> FALSE]],
     _slice |-> Slice3(None, None, None), direction |-> "rising_edges"]

InitEdges ==
    /\ call = "start"
    /\ args \in {[array |-> a, _slice |-> s, direction |-> d] :
                    a \in ScanArrays, s \in EdgeSlices(MaxScanLen),
                    d \in {"rising_edges", "falling_edges", "all_edges", "edges"}}
                \cup {EdgeScenario}
    /\ args._slice \in EdgeSlices(Len(args.array.data))
    /\ locals = NoLocals
    /\ ret = NoneResult

CallFindEdges ==
    /\ call = "start"
    /\ call' = "find_edges"
    /\ ret' = find_edges(args.array, args._slice, args.direction)
    /\ UNCHANGED <<args, locals>>

NextEdges == CallFindEdges

SpecEdges == InitEdges /\ [][NextEdges]_vars

\* Twice the points i - 0.5 of the claim: the array indices i from the
\* second sample of the examined slice on whose sample differs from the
\* sample before in the direction asked for, both samples being valid.
ExpectedEdges(array, _slice, direction) ==
    LET n == Len(array.data)
        lo == IF _slice.start = None THEN 0 ELSE _slice.start
        hi == IF _slice.stop = None THEN n ELSE Min2(_slice.stop, n)
    IN AscendingSeq({2 * i - 1 : i \in {i \in (lo + 1)..(hi - 1) :
          /\ Valid(array, i) /\ Valid(array, i - 1)
          /\ \/ direction # "falling_edges" /\ Value(array, i) > Value(array, i - 1)
             \/ direction # "rising_edges" /\ Value(array, i) < Value(array, i - 1)}})

Rat(x) == [num |-> x, den |-> 1]

RatEq(p, q) == p.num * q.den = q.num * p.den

\* The array with every sample as a rational number.
AsRat(array) ==
    [data |-> [i \in 1..Len(array.data) |-> Rat(array.data[i])], mask |-> array.mask]

\* np_ma_zeros_like(array, mask=True)
np_ma_zeros_like(array) ==
    [data |-> [i \in 1..Len(array.data) |-> Rat(0)],
     mask |-> [i \in 1..Len(array.data) |-> TRUE]]

\* np.ma.clump_masked(array): the maximal masked runs, ascending
MaskedSections(array) ==
    MaximalRuns({i \in 0..(Len(array.mask) - 1) : array.mask[i + 1]})

\* The assignment reaching one sample past the section.
FillThrough(array, section, values) ==
    [data |-> [i \in 1..Len(array.data) |->
                  IF section.start <= i - 1 /\ i - 1 <= section.stop
                  THEN values[Min2(i - section.start, Len(values))] ELSE array.data[i]],
     mask |-> [i \in 1..Len(array.mask) |->
                  IF section.start <= i - 1 /\ i - 1 <= section.stop
                  THEN FALSE ELSE array.mask[i]]]

\* array.data[section] = values; array.mask[section] = False
Fill(array, section, values) ==
    [data |-> [i \in 1..Len(array.data) |->
                  IF section.start <= i - 1 /\ i - 1 < section.stop
                  THEN values[i - section.start] ELSE array.data[i]],
     mask |-> [i \in 1..Len(array.mask) |->
                  IF section.start <= i - 1 /\ i - 1 < section.stop
                  THEN FALSE ELSE array.mask[i]]]

\* np.interp(np.arange(length) + 1, [0, length + 1], [start_value, end_value])
Interp(length, start_value, end_value) ==
    [k \in 1..length |->
        [num |-> start_value.num * end_value.den * (length + 1 - k)
                     + end_value.num * start_value.den * k,
         den |-> start_value.den * end_value.den * (length + 1)]]

\* A value above repair_above
Above(v, repair_above) == v.num > repair_above * v.den

\* The loop body leaving a section of exactly repair_samples unrepaired.
RepairSectionStrict(array, section, p) ==
    LET length == section.stop - section.start
    IN IF p.repair_samples # None /\ length >= p.repair_samples THEN array
       ELSE IF section.start = 0
       THEN IF ~p.extrapolate THEN array
            ELSE IF p.zero_if_masked THEN Fill(array, section, [k \in 1..length |-> Rat(0)])
            ELSE Fill(array, section, [k \in 1..length |-> array.data[section.stop + 1]])
       ELSE IF section.stop = Len(array.data)
       THEN IF ~p.extrapolate THEN array
            ELSE IF p.zero_if_masked THEN Fill(array, section, [k \in 1..length |-> Rat(0)])
            ELSE Fill(array, section, [k \in 1..length |-> array.data[section.start]])
       ELSE IF p.repair_above = None
               \/ (/\ Above(array.data[section.start], p.repair_above)
                   /\ Above(array.data[section.stop + 1], p.repair_above))
       THEN Fill(array, section,
                 Interp(length, array.data[section.start], array.data[section.stop + 1]))
       ELSE array

\* library.py 4823-4859: one section repaired, or the array as it was
RepairSection(array, section, p) ==
    LET length == section.stop - section.start
    IN IF p.repair_samples # None /\ length > p.repair_samples THEN array
       ELSE IF section.start = 0
       THEN IF ~p.extrapolate THEN array
            ELSE IF p.zero_if_masked THEN Fill(array, section, [k \in 1..length |-> Rat(0)])
            ELSE Fill(array, section, [k \in 1..length |-> array.data[section.stop + 1]])
       ELSE IF section.stop = Len(array.data)
       THEN IF ~p.extrapolate THEN array
            ELSE IF p.zero_if_masked THEN Fill(array, section, [k \in 1..length |-> Rat(0)])
            ELSE Fill(array, section, [k \in 1..length |-> array.data[section.start]])
       ELSE IF p.repair_above = None
               \/ (/\ Above(array.data[section.start], p.repair_above)
                   /\ Above(array.data[section.stop + 1], p.repair_above))
       THEN Fill(array, section,
                 Interp(length, array.data[section.start], array.data[section.stop + 1]))
       ELSE array

RECURSIVE RepairSections(_, _, _)
\* library.py 4822-4859: the loop over the masked sections; it ends early
\* where a section is too long and raise_duration_exceedance is set.
RepairSections(array, sections, p) ==
    IF sections = <<>> THEN [array |-> array, raised |-> FALSE]
    ELSE LET section == Head(sections)
             length == section.stop - section.start
         IN IF /\ p.repair_samples # None
               /\ length > p.repair_samples
               /\ p.raise_duration_exceedance
            THEN [array |-> array, raised |-> TRUE]
            ELSE RepairSections(RepairSection(array, section, p), Tail(sections), p)

\* library.py 4793-4861. The result holds what is returned (ret) and the
\* array of the caller after the call (array): the same object unless copy is
\* set or a new array of zeros is returned.
repair_mask(array, frequency, repair_duration, raise_duration_exceedance, copy, extrapolate, zero_if_masked, repair_above) ==
    LET p == [repair_samples |-> IF repair_duration # None /\ repair_duration # 0
                                 THEN repair_duration * frequency ELSE None,
              raise_duration_exceedance |-> raise_duration_exceedance,
              extrapolate |-> extrapolate,
              zero_if_masked |-> zero_if_masked,
              repair_above |-> repair_above]
        done == RepairSections(AsRat(array), MaskedSections(array), p)
    IN IF Count(array) = 0
       THEN IF zero_if_masked
            THEN [ret |-> [tag |-> "array", v |-> np_ma_zeros_like(array)],
                  array |-> AsRat(array)]
            ELSE [ret |-> Raise("ValueError"), array |-> AsRat(array)]
       ELSE [ret |-> IF done.raised THEN Raise("ValueError")
                     ELSE [tag |-> "array", v |-> done.array],
             array |-> IF copy THEN AsRat(array) ELSE done.array]

(***************************************************************************)
(* SpecRepair: one call of repair_mask.                                    *)
(***************************************************************************)
\* Repaired arrays hold up to MaxRepairLen samples, masked in any pattern.
MaxRepairLen == 4

\* repair_duration is None (no limit) or 1..MaxRepairDuration seconds.
MaxRepairDuration == 2

RepairLevels == {0, 2}

RepairArrays ==
    UNION {[data : [1..n -> RepairLevels], mask : [1..n -> BOOLEAN]] : n \in 0..MaxRepairLen}

InitRepair ==
    /\ call = "start"
    /\ args \in [array : RepairArrays,
                 frequency : {1, 2},
                 repair_duration : {None} \cup 1..MaxRepairDuration,
                 raise_duration_exceedance : BOOLEAN,
                 copy : BOOLEAN,
                 extrapolate : BOOLEAN,
                 zero_if_masked : BOOLEAN,
                 repair_above : {None, 1}]
    /\ locals = NoLocals
    /\ ret = NoneResult

\* locals.array is the array of the caller after the call.
CallRepairMask ==
    /\ call = "start"
    /\ call' = "repair_mask"
    /\ LET r == repair_mask(args.array, args.frequency, args.repair_duration,
                            args.raise_duration_exceedance, args.copy,
                            args.extrapolate, args.zero_if_masked, args.repair_above)
       IN ret' = r.ret /\ locals' = [array |-> r.array]
    /\ UNCHANGED args

NextRepair == CallRepairMask

SpecRepair == InitRepair /\ [][NextRepair]_vars

\* C15: repair_mask returns an array of the length of its input in which
\* every sample valid on entry keeps its value and stays valid; only the
\* mask bits and values of samples masked on entry can change, and a fully
\* valid array comes back unchanged.
C15_ValidSamplesUntouched ==
    (call = "repair_mask" /\ ret.tag = "array") =>
        /\ Len(ret.v.data) = Len(args.array.data)
        /\ Len(ret.v.mask) = Len(args.array.mask)
        /\ \A i \in 1..Len(args.array.data) :
              ~args.array.mask[i] =>
                  ~ret.v.mask[i] /\ RatEq(ret.v.data[i], Rat(args.array.data[i]))
        /\ Count(args.array) = Len(args.array.data) => ret.v = AsRat(args.array)

\* An interior run was interpolated between two valid samples of different
\* values, which are returned as they were.
C15_Witness ==
    /\ call = "repair_mask"
    /\ ret.tag = "array"
    /\ Len(args.array.data) = 4
    /\ args.array.mask = <<FALSE, TRUE, TRUE, FALSE>>
    /\ args.array.data[1] # args.array.data[4]
    /\ ret.v.mask = <<FALSE, FALSE, FALSE, FALSE>>
    /\ ~RatEq(ret.v.data[2], ret.v.data[3])

\* The value on the straight line from sample s - 1 to sample e at index i.
OnTheLine(array, s, e, i) ==
    LET a == array.data[s]
        b == array.data[e + 1]
    IN [num |-> a * (e - s + 1) + (b - a) * (i - s + 1), den |-> e - s + 1]

StaysMasked(section) ==
    \A i \in section.start..(section.stop - 1) : ret.v.mask[i + 1]

Unmasked(section) ==
    \A i \in section.start..(section.stop - 1) : ~ret.v.mask[i + 1]

\* What the claim says of one masked run of the input, a run being
\* repairable when it is shorter than the limit (strict) or not longer.
RunRepaired(section, limit, strict) ==
    LET n == Len(args.array.data)
        length == section.stop - section.start
        repairable == IF strict THEN length < limit ELSE length <= limit
    IN IF section.start > 0 /\ section.stop < n
       THEN IF repairable
            THEN /\ Unmasked(section)
                 /\ \A i \in section.start..(section.stop - 1) :
                       RatEq(ret.v.data[i + 1],
                             OnTheLine(args.array, section.start, section.stop, i))
            ELSE StaysMasked(section)
       ELSE /\ Unmasked(section) \/ StaysMasked(section)
            /\ Unmasked(section) => args.extrapolate
            /\ Unmasked(section) =>
                  \A i \in section.start..(section.stop - 1) :
                     RatEq(ret.v.data[i + 1],
                           IF args.zero_if_masked THEN Rat(0)
                           ELSE IF section.start = 0
                           THEN Rat(args.array.data[section.stop + 1])
                           ELSE Rat(args.array.data[section.start]))

\* The claim for a call with a repair_duration, without repair_above, on
\* an array that is not masked all over.
RunsRepaired(strict) ==
    (/\ call = "repair_mask"
     /\ args.repair_duration # None
     /\ args.repair_above = None
     /\ Count(args.array) > 0) =>
        LET limit == args.repair_duration * args.frequency
            sections == MaskedSections(args.array)
            long == {k \in 1..Len(sections) : sections[k].stop - sections[k].start > limit}
        IN IF args.raise_duration_exceedance /\ long # {}
           THEN ret = Raise("ValueError")
           ELSE /\ ret.tag = "array"
                /\ \A k \in 1..Len(sections) : RunRepaired(sections[k], limit, strict)

\* C16 as stated: an interior masked run is unmasked, by linear
\* interpolation between its bounding valid samples, if and only if it is
\* shorter than repair_duration * frequency samples; longer runs stay masked
\* or raise ValueError with raise_duration_exceedance; a run touching the
\* first or last sample is filled only with extrapolate, by the nearest
\* valid sample or by zero with zero_if_masked.
C16_RepairsRunsShorterThanLimit == RunsRepaired(TRUE)

\* C16 amended: the interior run is repaired if and only if it is not longer
\* than repair_duration * frequency samples; a run of exactly that length is
\* repaired.
C16_RepairsRunsNotLongerThanLimit == RunsRepaired(FALSE)

\* An interior run of exactly repair_duration * frequency samples was
\* interpolated between two different values.
C16_Witness ==
    /\ call = "repair_mask"
    /\ ret.tag = "array"
    /\ args.repair_above = None
    /\ args.array.mask = <<FALSE, TRUE, TRUE, FALSE>>
    /\ args.array.data[1] # args.array.data[4]
    /\ args.repair_duration # None
    /\ args.repair_duration * args.frequency = 2
    /\ Unmasked(Slice(1, 3))

(***************************************************************************)
(* moving_average and the first order filters. Samples are rational        *)
(* numbers num / den as in repair_mask.                                    *)
(***************************************************************************)
RECURSIVE GCD(_, _)
GCD(a, b) == IF b = 0 THEN a ELSE GCD(b, a % b)

\* A rational number in lowest terms, as far as equality goes the same number.
Lowest(p) ==
    LET g == GCD(Abs(p.num), p.den)
    IN [num |-> p.num \div g, den |-> p.den \div g]

RatAdd(p, q) == Lowest([num |-> p.num * q.den + q.num * p.den, den |-> p.den * q.den])

RatMul(p, q) == Lowest([num |-> p.num * q.num, den |-> p.den * q.den])

RECURSIVE RatSum(_)
\* The sum of a sequence of rational numbers.
RatSum(s) == IF s = <<>> THEN Rat(0) ELSE RatAdd(Head(s), RatSum(Tail(s)))

\* np.convolve(a, v, 'valid'): the shorter sequence, reversed, slides along
\* the longer one.
Convolve(a, v) ==
    LET long == IF Len(a) >= Len(v) THEN a ELSE v
        short == IF Len(a) >= Len(v) THEN v ELSE a
        M == Len(short)
    IN IF M = 0 THEN <<>>
       ELSE [j \in 1..(Len(long) - M + 1) |->
                RatSum([k \in 1..M |-> RatMul(long[j + k - 1], short[M + 1 - k])])]

NoWeightings == <<>>

\* n masked zeros
MaskedZeros(n) ==
    [data |-> [i \in 1..n |-> Rat(0)], mask |-> [i \in 1..n |-> TRUE]]

\* np.ma.hstack of three arrays
HStack(a, b, c) ==
    [data |-> a.data \o b.data \o c.data, mask |-> a.mask \o b.mask \o c.mask]

\* library.py 4134-4179. weightings is a sequence of integers, the empty
\* sequence NoWeightings standing for None; ret is what is returned, array the array of the caller after the call,
\* which repair_mask works on in place.
moving_average(array, window, weightings, pad) ==
    LET n == Len(array.data)
        w == IF weightings = NoWeightings
             THEN [k \in 1..window |-> [num |-> 1, den |-> window]]
             ELSE [k \in 1..Len(weightings) |-> Rat(weightings[k])]
        rep == repair_mask(array, 1, None, FALSE, FALSE, FALSE, FALSE, None)
        repaired == rep.ret.v
        start == FirstValid(repaired)
        stop == LastValid(repaired) + 1
        unmasked_data == SubSeq(repaired.data, start + 1, stop)
        averaged == Convolve(unmasked_data, w)
        plain == [data |-> averaged, mask |-> [i \in 1..Len(averaged) |-> FALSE]]
        pad_front == MaskedZeros((window \div 2) + start)
        pad_end == MaskedZeros(n - 1 + ((window + 1) \div 2) - stop)
    IN IF n = 0 THEN [ret |-> NoneResult, array |-> AsRat(array)]
       ELSE IF weightings # NoWeightings /\ Len(weightings) # window
       THEN [ret |-> Raise("ValueError"), array |-> AsRat(array)]
       ELSE IF rep.ret.tag # "array" THEN rep
       ELSE [ret |-> [tag |-> "array",
                      v |-> IF pad THEN HStack(pad_front, plain, pad_end) ELSE plain],
             array |-> rep.array]

\* A quotient with a positive denominator.
RatDiv(p, q) ==
    IF q.num < 0 THEN [num |-> 0 - p.num * q.den, den |-> 0 - p.den * q.num]
    ELSE [num |-> p.num * q.den, den |-> p.den * q.num]

RatNeg(p) == [num |-> 0 - p.num, den |-> p.den]

\* scipy.signal.lfilter_zi(b, a) for a first order filter: the state of
\* the filter settled on a constant input of 1.
lfilter_zi(x_term, y_term) ==
    RatDiv(RatAdd(x_term[2], RatNeg(RatMul(y_term[2], x_term[1]))),
           RatAdd(Rat(1), y_term[2]))

RECURSIVE lfilter(_, _, _, _)
\* scipy.signal.lfilter(b, a, x, zi=zi)[0] for a first order filter:
\* y[n] = b[0] x[n] + z[n - 1], z[n] = b[1] x[n] - a[1] y[n], z[-1] = zi.
lfilter(x_term, y_term, x, zi) ==
    IF x = <<>> THEN <<>>
    ELSE LET y == RatAdd(RatMul(x_term[1], Head(x)), zi)
             z == RatAdd(RatMul(x_term[2], Head(x)), RatNeg(RatMul(y_term[2], y)))
         IN <<y>> \o lfilter(x_term, y_term, Tail(x), z)

\* result[good_part] = answer
FilledPart(result, good_part, answer) ==
    [result EXCEPT !.data = [i \in 1..Len(result.data) |->
                                IF good_part.start <= i - 1 /\ i - 1 < good_part.stop
                                THEN answer[i - good_part.start] ELSE result.data[i]]]

RECURSIVE FilterParts(_, _, _, _, _, _)
\* library.py 1877-1883: the loop over the good parts; initial_value, once
\* set from the first sample of a part, is kept for the parts after it.
FilterParts(result, good_parts, param, y_term, x_term, initial_value) ==
    IF good_parts = <<>> THEN result
    ELSE LET good_part == Head(good_parts)
             value == IF initial_value = None
                      THEN param.data[good_part.start + 1] ELSE initial_value
             x == [k \in 1..(good_part.stop - good_part.start) |->
                      Rat(param.data[good_part.start + k])]
             answer == lfilter(x_term, y_term, x,
                               RatMul(lfilter_zi(x_term, y_term), Rat(value)))
         IN FilterParts(FilledPart(result, good_part, answer), Tail(good_parts),
                        param, y_term, x_term, value)

\* library.py 1850-1892
masked_first_order_filter(y_term, x_term, param, initial_value) ==
    LET n == Len(param.data)
        result == [data |-> [i \in 1..n |-> Rat(0)], mask |-> [i \in 1..n |-> FALSE]]
        good_parts == MaximalRuns({i \in 0..(n - 1) : ~param.mask[i + 1]})
        filtered == FilterParts(result, good_parts, param, y_term, x_term, initial_value)
    IN [tag |-> "array", v |-> [filtered EXCEPT !.mask = param.mask]]

\* library.py 1799-1847, tc = time_constant * hz an integer
first_order_lag(param, time_constant, hz, gain, initial_value) ==
    LET tc == time_constant * hz
        x_term == <<[num |-> gain, den |-> 1 + 2 * tc], [num |-> gain, den |-> 1 + 2 * tc]>>
        y_term == <<Rat(1), [num |-> 1 - 2 * tc, den |-> 1 + 2 * tc]>>
    IN IF 2 * tc < 1 THEN Raise("ValueError")
       ELSE masked_first_order_filter(y_term, x_term, param, initial_value)

\* library.py 1895-1938
first_order_washout(param, time_constant, hz, gain, initial_value) ==
    LET tc == time_constant * hz
        x_term == <<[num |-> gain * 2 * tc, den |-> 1 + 2 * tc],
                    [num |-> 0 - gain * 2 * tc, den |-> 1 + 2 * tc]>>
        y_term == <<Rat(1), [num |-> 1 - 2 * tc, den |-> 1 + 2 * tc]>>
    IN IF 2 * tc < 1 THEN Raise("ValueError")
       ELSE masked_first_order_filter(y_term, x_term, param, initial_value)

(***************************************************************************)
(* SpecFilters: one call of moving_average, first_order_lag or             *)
(* first_order_washout.                                                    *)
(***************************************************************************)
\* Windows of 1..MaxWindow samples.
MaxWindow == 3

\* time_constant is 0..MaxTimeConstant seconds.
MaxTimeConstant == 2

AverageArgs ==
    [fn : {"moving_average"}, array : RepairArrays, window : 1..MaxWindow,
     weightings : {NoWeightings, <<1, 2>>}, pad : BOOLEAN]

FilterArgs ==
    [fn : {"first_order_lag", "first_order_washout"}, param : RepairArrays,
     time_constant : 0..MaxTimeConstant, hz : {1}, gain : {1, 2},
     initial_value : {None, 0, 1}]

InitFilters ==
    /\ call = "start"
    /\ args \in AverageArgs \cup FilterArgs
    /\ locals = NoLocals
    /\ ret = NoneResult

CallMovingAverage ==
    /\ call = "start"
    /\ args.fn = "moving_average"
    /\ call' = "moving_average"
    /\ LET r == moving_average(args.array, args.window, args.weightings, args.pad)
       IN ret' = r.ret /\ locals' = [array |-> r.array]
    /\ UNCHANGED args

CallFirstOrderLag ==
    /\ call = "start"
    /\ args.fn = "first_order_lag"
    /\ call' = "first_order_lag"
    /\ ret' = first_order_lag(args.param, args.time_constant, args.hz, args.gain,
                              args.initial_value)
    /\ UNCHANGED <<args, locals>>

CallFirstOrderWashout ==
    /\ call = "start"
    /\ args.fn = "first_order_washout"
    /\ call' = "first_order_washout"
    /\ ret' = first_order_washout(args.param, args.time_constant, args.hz, args.gain,
                                  args.initial_value)
    /\ UNCHANGED <<args, locals>>

NextFilters == CallMovingAverage \/ CallFirstOrderLag \/ CallFirstOrderWashout

SpecFilters == InitFilters /\ [][NextFilters]_vars

\* The samples of the input under the window of output sample i.
WindowOf(i, window) == (i - (window \div 2))..(i - (window \div 2) + window - 1)

\* No valid sample of the padded moving average has a sample under its
\* window that was masked in the input.
AverageKeepsOffMaskedSamples ==
    (call = "moving_average" /\ args.pad /\ ret.tag = "array") =>
        \A i \in 0..(Len(ret.v.data) - 1) :
            ~ret.v.mask[i + 1] =>
                \A k \in WindowOf(i, args.window) :
                    /\ 0 <= k /\ k < Len(args.array.data)
                    /\ ~args.array.mask[k + 1]

\* The valid run of param from sample s up to sample e - 1, as an array.
RunAlone(param, s, e) ==
    [data |-> SubSeq(param.data, s + 1, e), mask |-> [i \in 1..(e - s) |-> FALSE]]

\* The filter named by the call, applied to an array.
FilterOf(param) ==
    IF args.fn = "first_order_lag"
    THEN first_order_lag(param, args.time_constant, args.hz, args.gain, args.initial_value)
    ELSE first_order_washout(param, args.time_constant, args.hz, args.gain,
                             args.initial_value)

\* Over every valid run the output is what the filter makes of that run by
\* itself.
FilterTreatsRunsAlone ==
    (call \in {"first_order_lag", "first_order_washout"} /\ ret.tag = "array") =>
        LET runs == MaximalRuns({i \in 0..(Len(args.param.data) - 1) :
                                    ~args.param.mask[i + 1]})
        IN \A r \in 1..Len(runs) :
              LET alone == FilterOf(RunAlone(args.param, runs[r].start, runs[r].stop)).v
              IN \A k \in 1..Len(alone.data) :
                    /\ ~ret.v.mask[runs[r].start + k]
                    /\ RatEq(ret.v.data[runs[r].start + k], alone.data[k])

\* C17: the smoothing filters treat each contiguous valid run by itself and
\* never smooth across a masked gap: moving_average has no valid output
\* sample whose window holds a sample masked in the input, and
\* first_order_lag / first_order_washout compute the output over a valid run
\* from the samples of that run only, each run started from its own first
\* sample when no initial_value is given.
C17_FiltersNeverCrossMaskedGaps ==
    AverageKeepsOffMaskedSamples /\ FilterTreatsRunsAlone

(***************************************************************************)
(* hysteresis(array, hysteresis). The loops work on four times the values, *)
(* so that quarter_range = hysteresis / 4.0 is the integer hysteresis; the  *)
(* result holds the rational numbers value / 4.                            *)
(***************************************************************************)
\* library.py 2597-2600: old after one sample, all numbers times four
Follow(new, old, quarter_range) ==
    IF new - old > quarter_range THEN new - quarter_range
    ELSE IF new - old < 0 - quarter_range THEN new + quarter_range
    ELSE old

RECURSIVE HysteresisPass(_, _, _, _, _)
\* One loop over the indices: values[index] followed with the hysteresis,
\* the results put into out. Gives out and the last old.
HysteresisPass(values, indices, old, quarter_range, out) ==
    IF indices = <<>> THEN [out |-> out, old |-> old]
    ELSE LET index == Head(indices)
             next == Follow(values[index + 1], old, quarter_range)
         IN HysteresisPass(values, Tail(indices), next, quarter_range,
                           [out EXCEPT ![index + 1] = next])

Reversed(s) == [k \in 1..Len(s) |-> s[Len(s) + 1 - k]]

\* The backward loop left out: the result is half_done.
BackwardPassSkipped(half_done, notmasked, old, quarter_range) == half_done

\* library.py 2604-2610: the loop over notmasked[::-1], which goes on from
\* the old the forward loop ended with
BackwardPass(half_done, notmasked, old, quarter_range) ==
    HysteresisPass(half_done, Reversed(notmasked), old, quarter_range,
                   [i \in 1..Len(half_done) |-> 0]).out

\* library.py 2566-2614; named Hysteresis because the parameter of the
\* function has the name of the function
Hysteresis(array, hysteresis) ==
    LET length == Len(array.data)
        zeros == [i \in 1..length |-> 0]
        notmasked == AscendingSeq({i \in 0..(length - 1) : ~array.mask[i + 1]})
        times4 == [i \in 1..length |-> 4 * array.data[i]]
        forward == HysteresisPass(times4, notmasked, times4[notmasked[1] + 1],
                                  hysteresis, zeros)
        result == BackwardPass(forward.out, notmasked, forward.old, hysteresis)
    IN IF Count(array) = 0 THEN [tag |-> "array", v |-> AsRat(array)]
       ELSE [tag |-> "array",
             v |-> [data |-> [i \in 1..length |-> [num |-> result[i], den |-> 4]],
                    mask |-> array.mask]]

(***************************************************************************)
(* SpecHysteresis: one call of hysteresis.                                 *)
(***************************************************************************)
\* The band of hysteresis is 0..MaxBand.
MaxBand == 4

\* hysteresis(np.ma.array([0, 10, 0, 10, 0]), 20)
HysteresisScenario ==
    [array |-> [data |-> <<0, 10, 0, 10, 0>>, mask |-> [i \in 1..5 |-> FALSE]],
     hysteresis |-> 20]

InitHysteresis ==
    /\ call = "start"
    /\ args \in [array : RepairArrays, hysteresis : 0..MaxBand] \cup {HysteresisScenario}
    /\ locals = NoLocals
    /\ ret = NoneResult

CallHysteresis ==
    /\ call = "start"
    /\ call' = "hysteresis"
    /\ ret' = Hysteresis(args.array, args.hysteresis)
    /\ UNCHANGED <<args, locals>>

NextHysteresis == CallHysteresis

SpecHysteresis == InitHysteresis /\ [][NextHysteresis]_vars

\* C18: hysteresis([0,10,0,10,0], band=20) is fully damped, all five output
\* samples being equal, and the mask of the output is the mask of the input
\* (for this and for every other input).
C18_ScenarioFullyDamped ==
    call = "hysteresis" =>
        /\ ret.tag = "array"
        /\ ret.v.mask = args.array.mask
        /\ args = HysteresisScenario =>
              /\ Len(ret.v.data) = 5
              /\ \A i \in 1..5 : RatEq(ret.v.data[i], ret.v.data[1])

\* The scenario was run: five valid samples came back, the forward loop
\* having followed the first rise by a quarter of the band.
C18_Witness ==
    /\ call = "hysteresis"
    /\ args = HysteresisScenario
    /\ ret.v.mask = [i \in 1..5 |-> FALSE]
    /\ RatEq(ret.v.data[2], Rat(5))

(***************************************************************************)
(* flight_phase.py: Airborne.derive(alt_aal, fast). The phases created are *)
(* the list returned. settings.AIRBORNE_THRESHOLD_TIME is configuration    *)
(* and is an argument of the call here; the frequency is a float, so that  *)
(* duration / alt_aal.hz is a true division.                               *)
(***************************************************************************)
\* np.ma.masked_less_equal(working_alt, 0.0) as a workspace: 1 where the
\* sample is masked or not above zero.
masked_less_equal_zero(array, start_point, stop_point) ==
    Window([i \in 1..Len(array.data) |->
               IF array.mask[i] \/ array.data[i] <= 0 THEN 1 ELSE 0],
           start_point, stop_point)

\* The test of the duration with >= for >.
LongEnoughOrEqual(duration, hz, threshold) == duration >= threshold * hz

\* flight_phase.py 118: (duration / alt_aal.hz) > AIRBORNE_THRESHOLD_TIME
LongEnough(duration, hz, threshold) == duration > threshold * hz

\* self.create_phase(section_slice): shift_slice gives a list of one slice
create_phase(phases, section_slice) == phases \o section_slice

RECURSIVE AirsLoop(_, _, _, _, _, _)
\* flight_phase.py 106-120: for air in airs
AirsLoop(airs, start_point, length, hz, threshold, phases) ==
    IF airs = <<>> THEN phases
    ELSE LET air == Head(airs)
             begin == IF air.start + start_point = 0 THEN None ELSE air.start
             end == IF air.stop + start_point >= length THEN None ELSE air.stop
             created == create_phase(phases,
                                     shift_slice(Slice(begin, end), start_point))
         IN AirsLoop(Tail(airs), start_point, length, hz, threshold,
                     IF begin = None \/ end = None THEN created
                     ELSE IF LongEnough(end - begin, hz, threshold) THEN created
                     ELSE phases)

RECURSIVE SpeedyLoop(_, _, _, _, _)
\* flight_phase.py 87-120: for speedy in speedy_slices
SpeedyLoop(speedy_slices, array, hz, threshold, phases) ==
    IF speedy_slices = <<>> THEN phases
    ELSE LET speedy == Head(speedy_slices)
             start_point == OrElse(speedy.start, 0)
             stop_point == OrElse(speedy.stop, Len(array.data))
             working_alt == masked_less_equal_zero(array, start_point, stop_point)
             airs == slices_remove_small_gaps(
                         clump_unmasked(working_alt, NoMask(working_alt)), 40, hz)
         IN IF speedy.start = None /\ speedy.stop = None THEN phases
            ELSE SpeedyLoop(Tail(speedy_slices), array, hz, threshold,
                            AirsLoop(airs, start_point, Len(array.data), hz,
                                     threshold, phases))

\* flight_phase.py 79-120
Airborne_derive(alt_aal, fast, threshold) ==
    List(SpeedyLoop(slices_remove_small_gaps(fast.slices, 60, fast.frequency),
                    alt_aal.array, alt_aal.frequency, threshold, <<>>))

(***************************************************************************)
(* SpecAirborne: one call of Airborne.derive. The altitude is built from   *)
(* segments in the air (500 ft), on the ground (0 ft) or masked, so that   *)
(* gaps on both sides of the 40 s and 60 s limits fit in.                  *)
(***************************************************************************)
\* An altitude array has 1..MaxSegments segments.
MaxSegments == 3

\* A segment is 1 or 30 samples in the air, 1 or 40 samples on the ground,
\* or one masked sample.
SegmentShapes ==
    [kind : {"air"}, length : {1, 30}]
    \cup [kind : {"ground"}, length : {1, 40}]
    \cup {[kind |-> "masked", length |-> 1]}

\* The longest altitude array: segments of 30, 40 and 1 samples.
LongestAltitude == 71

AirborneThresholds == {2, 30}

AirborneFrequencies == {1, 2}

RECURSIVE SamplesOf(_)
SamplesOf(segments) ==
    IF segments = <<>> THEN 0 ELSE Head(segments).length + SamplesOf(Tail(segments))

Segments ==
    {s \in UNION {[1..n -> SegmentShapes] : n \in 1..MaxSegments} :
        SamplesOf(s) <= LongestAltitude}

RECURSIVE Altitude(_)
Altitude(segments) ==
    IF segments = <<>> THEN [data |-> <<>>, mask |-> <<>>]
    ELSE LET s == Head(segments)
             rest == Altitude(Tail(segments))
         IN [data |-> [i \in 1..s.length |-> IF s.kind = "air" THEN 500 ELSE 0]
                      \o rest.data,
             mask |-> [i \in 1..s.length |-> s.kind = "masked"] \o rest.mask]

\* Fast sections: none, one with or without open ends, or two closed ones.
\* A section starts at a sample of the data.
FastSlices(n) ==
    {<<>>}
    \cup {<<Slice(a, b)>> : a \in ({0, 1} \cap 0..(n - 1)) \cup {None},
                            b \in ({n - 1, n} \ {0}) \cup {None}}
    \cup {<<Slice(0, 1), Slice(n - 1, n)>>}

AirborneScenario ==
    [alt_aal |-> [array |-> [data |-> <<0, 0, 500, 1000, 500, 0, 0>>,
                             mask |-> [i \in 1..7 |-> FALSE]],
                  frequency |-> 1],
     fast |-> [slices |-> <<Slice(0, 7)>>, frequency |-> 1]]

\* The arguments with the altitude of the segments s at hz samples a second.
AirborneArgs(s, hz) ==
    LET array == Altitude(s)
    IN {[alt_aal |-> [array |-> array, frequency |-> hz],
         fast |-> [slices |-> f, frequency |-> hz],
         threshold |-> t] :
           f \in {x \in FastSlices(Len(array.data)) :
                     \A k \in 1..Len(x) : \/ x[k].start = None
                                          \/ x[k].stop = None
                                          \/ x[k].start < x[k].stop},
           t \in AirborneThresholds}

InitAirborne ==
    /\ call = "start"
    /\ args \in UNION {AirborneArgs(s, hz) : s \in Segments,
                                               hz \in AirborneFrequencies}
                \cup {[alt_aal |-> AirborneScenario.alt_aal,
                       fast |-> AirborneScenario.fast,
                       threshold |-> t] : t \in AirborneThresholds}
    /\ locals = NoLocals
    /\ ret = NoneResult

CallAirborneDerive ==
    /\ call = "start"
    /\ call' = "Airborne.derive"
    /\ ret' = Airborne_derive(args.alt_aal, args.fast, args.threshold)
    /\ UNCHANGED <<args, locals>>

NextAirborne == CallAirborneDerive

SpecAirborne == InitAirborne /\ [][NextAirborne]_vars

\* Sample i of the altitude is valid and above zero.
InTheAir(i) ==
    /\ ~args.alt_aal.array.mask[i + 1]
    /\ args.alt_aal.array.data[i + 1] > 0

\* The runs of altitude above zero of the samples lo..hi-1, runs less than
\* limit samples apart being one run: a run starts at a sample in the air
\* with no sample in the air less than limit samples before it, and ends
\* after a sample in the air with none less than limit samples after it.
AirRuns(lo, hi, limit) ==
    LET starts == {b \in lo..(hi - 1) :
                      /\ InTheAir(b)
                      /\ \A p \in lo..(b - 1) : InTheAir(p) => b - p - 1 >= limit}
        ends == {e \in (lo + 1)..hi :
                    /\ InTheAir(e - 1)
                    /\ \A q \in e..(hi - 1) : InTheAir(q) => q - e >= limit}
    IN {r \in starts \X ends :
           /\ r[1] < r[2]
           /\ \A e \in ends : e > r[1] => r[2] <= e}

\* The phases of the Fast sections given, by the rule of the claim.
PhasesByRule(sections) ==
    LET length == Len(args.alt_aal.array.data)
        limit == 40 * args.alt_aal.frequency
        runs == UNION {AirRuns(IF s.start = None THEN 0 ELSE s.start,
                               IF s.stop = None THEN length ELSE Min2(s.stop, length),
                               limit) : s \in Range(sections)}
    IN {Slice(IF r[1] = 0 THEN None ELSE r[1],
              IF r[2] >= length THEN None ELSE r[2]) :
           r \in {x \in runs :
                     \/ x[1] = 0
                     \/ x[2] >= length
                     \/ (x[2] - x[1]) > args.threshold * args.alt_aal.frequency}}

\* The Fast sections after the gaps under 60 s are closed.
SpeedySlices == slices_remove_small_gaps(args.fast.slices, 60, args.fast.frequency)

RECURSIVE UntilOpenSection(_)
\* The sections that come before the first one open at both ends.
UntilOpenSection(sections) ==
    IF sections = <<>> THEN <<>>
    ELSE IF Head(sections).start = None /\ Head(sections).stop = None THEN <<>>
    ELSE <<Head(sections)>> \o UntilOpenSection(Tail(sections))

IsAirborneScenario ==
    /\ args.alt_aal = AirborneScenario.alt_aal
    /\ args.fast = AirborneScenario.fast

\* C19: within each Fast interval the runs of altitude above zero, gaps
\* under 40 s merged, are emitted with a None bound where they touch the
\* first or last sample of the data and otherwise only if they last more
\* than AIRBORNE_THRESHOLD_TIME; [0,0,500,1000,500,0,0] at 1 Hz with Fast
\* over the whole array gives exactly the phase [2,5).
C19_RunsEmittedAndScenarioGivesOnePhase ==
    call = "Airborne.derive" =>
        /\ ret.tag = "list"
        /\ Range(ret.v) = PhasesByRule(SpeedySlices)
        /\ Len(ret.v) = Cardinality(PhasesByRule(SpeedySlices))
        /\ IsAirborneScenario => ret.v = <<Slice(2, 5)>>

\* C19 amended: the rule holds for the Fast intervals that come before one
\* open at both ends, where the derivation stops, and the scenario gives
\* the phase [2,5) when AIRBORNE_THRESHOLD_TIME is under 3 s and no phase
\* otherwise.
C19_RunsEmittedUntilOpenSection ==
    call = "Airborne.derive" =>
        /\ ret.tag = "list"
        /\ Range(ret.v) = PhasesByRule(UntilOpenSection(SpeedySlices))
        /\ Len(ret.v) = Cardinality(PhasesByRule(UntilOpenSection(SpeedySlices)))
        /\ IsAirborneScenario =>
              ret.v = IF args.threshold < 3 THEN <<Slice(2, 5)>> ELSE <<>>

\* One sample in the air, 40 s on the ground, one sample in the air: the
\* gap is not merged, and both runs, touching the ends of the data, were
\* emitted with an open bound though shorter than the threshold.
C19_Witness ==
    /\ call = "Airborne.derive"
    /\ Len(args.alt_aal.array.data) = 42
    /\ args.alt_aal.frequency = 1
    /\ args.threshold = 2
    /\ args.fast.slices = <<Slice(0, None)>>
    /\ InTheAir(0) /\ InTheAir(41)
    /\ ret.v = <<Slice(None, 1), Slice(41, None)>>

(***************************************************************************)
(* flight_phase.py: scan_ils(beam, ils_dots, height, scan_slice,           *)
(* frequency, duration). Deviations are held in 1/120 of a dot, so that    *)
(* 2.5 dots, 1 dot and the values repair_mask interpolates are whole       *)
(* numbers. Indices are rational numbers [num, den] with den > 0.          *)
(***************************************************************************)
Dots25 == 300

Dots10 == 120

Feet200 == 200

\* The index an index_at_value result stands for, as one rational number.
IndexRat(r) == [num |-> r.whole * r.den + r.num, den |-> r.den]

RatLess(p, q) == p.num * q.den < q.num * p.den

\* int(round(x)) of Python 2: halves go away from zero
RoundInt(x) ==
    IF x.num >= 0 THEN (2 * x.num + x.den) \div (2 * x.den)
    ELSE 0 - ((x.den - 2 * x.num) \div (2 * x.den))

\* int(x), and a float as a bound of a numpy slice: towards zero
TruncInt(x) ==
    IF x.num >= 0 THEN x.num \div x.den ELSE 0 - ((0 - x.num) \div x.den)

\* library.py 6024-6036 for float bounds: "x or d" tests the float, the
\* rounding comes after it.
FloatScanLimits(start, stop, step, max_index) ==
    IF step = -1
    THEN LET begin == Min2(IF start.num = 0 THEN max_index ELSE RoundInt(start),
                           max_index - 1)
             end == Max2(IF stop.num = 0 THEN 0 ELSE TruncInt(stop), 0)
         IN [begin |-> begin, end |-> end,
             left |-> Slice3(begin, end, -1),
             right |-> Slice3(begin - 1, IF end > 0 THEN end - 1 ELSE None, -1)]
    ELSE LET begin == Max2(IF start.num = 0 THEN 0 ELSE RoundInt(start), 0)
             end == Min2(IF stop.num = 0 THEN max_index ELSE RoundInt(stop), max_index)
         IN [begin |-> begin, end |-> end,
             left |-> Slice3(begin, end - 1, 1),
             right |-> Slice3(begin + 1, end, 1)]

\* index_at_value(array, threshold, slice(start, stop, step)) with float
\* bounds and the default endpoint 'exact' (library.py 5996-6100)
index_at_value_float(array, threshold, start, stop, step) ==
    LET lim == FloatScanLimits(start, stop, step, Len(array.data))
        cmp == ComparedPairs(array, lim)
    IN IF lim.begin = lim.end THEN NoneResult
       ELSE IF Abs(lim.begin - lim.end) < 2 THEN NoneResult
       ELSE IF ~cmp.ok THEN Raise("ValueError")
       ELSE IF Len(cmp.pairs) = 0 THEN NoneResult
       ELSE IF RatEq(stop, start) THEN NoneResult
       ELSE IF \A k \in 1..Len(cmp.pairs) : ~TestValid(array, threshold, cmp.pairs[k])
       THEN NoneResult
       ELSE Interpolated(array, threshold, cmp.pairs, lim.begin, step)

\* np.ma.abs(ils_dots)
Absolute(array) ==
    [data |-> [i \in 1..Len(array.data) |-> Abs(array.data[i])], mask |-> array.mask]

\* The repaired array in whole numbers again (the levels of the model are
\* multiples of 60 and the gaps shorter than 5 samples).
Whole(array) ==
    [data |-> [i \in 1..Len(array.data) |-> array.data[i].num \div array.data[i].den],
     mask |-> array.mask]

\* library.py 4736-4750: rate_of_change_array(..., method='regression')
\* without the scaling by sx2_hz > 0. A masked sample of to_diff reaches
\* np.array as 0.0 or as nan, as the build has it; entry i is
\* [nan, v] with v the sum of m * z[i + m] over m in -hw..hw.
RegressionRates(to_diff, hw, masked_is_nan) ==
    LET n == Len(to_diff.data)
        at(j) == IF j < 1 THEN 1 ELSE IF j > n THEN n ELSE j
        Sum[m \in (0 - hw - 1)..hw, i \in 1..n] ==
            IF m < 0 - hw THEN 0
            ELSE Sum[m - 1, i]
                 + m * (IF to_diff.mask[at(i + m)] THEN 0 ELSE to_diff.data[at(i + m)])
    IN [i \in 1..n |->
           [nan |-> masked_is_nan /\ \E m \in (0 - hw)..hw : to_diff.mask[at(i + m)],
            v |-> Sum[hw, i]]]

\* flight_phase.py 786-792: top * bottom > 0.0 with top = max(ils_rate) and
\* bottom = min(ils_rate) of Python, which keep a leading nan and pass over
\* any other.
StraightThrough(ils_rate) ==
    LET real == {i \in 1..Len(ils_rate) : ~ils_rate[i].nan}
        top == MaxOf({ils_rate[i].v : i \in real})
        bottom == MinOf({ils_rate[i].v : i \in real})
    IN IF ils_rate[1].nan THEN FALSE ELSE top * bottom > 0

\* What scan_ils returns for a beam captured.
IlsSlice(ils_capture_idx, ils_lost_idx) ==
    [tag |-> "slice", start |-> ils_capture_idx, stop |-> ils_lost_idx]

\* flight_phase.py 775-795
Established(ils_dots, ils_capture_idx, ils_lost_idx, frequency, masked_is_nan) ==
    LET picked == SliceIndices(Slice(TruncInt(ils_capture_idx), TruncInt(ils_lost_idx)),
                               Len(ils_dots.data))
        to_diff == [data |-> [k \in 1..Len(picked) |-> Value(ils_dots, picked[k])],
                    mask |-> [k \in 1..Len(picked) |-> ~Valid(ils_dots, picked[k])]]
        hw == (5 * frequency) \div 2
    IN IF Len(picked) = 0 THEN Raise("ValueError")
       ELSE IF Len(picked) <= 2 * hw THEN IlsSlice(ils_capture_idx, ils_lost_idx)
       ELSE IF StraightThrough(RegressionRates(to_diff, hw, masked_is_nan))
       THEN NoneResult
       ELSE IlsSlice(ils_capture_idx, ils_lost_idx)

\* flight_phase.py 764-773: the scan reached the start of the section
\* without passing 2.5 dots
FromStartOfSection(ils_abs, scan_slice, ils_lost_idx) ==
    LET picked == SliceIndices(Slice(scan_slice.start, TruncInt(ils_lost_idx)),
                               Len(ils_abs.data))
        valid == {k \in 1..Len(picked) : Valid(ils_abs, picked[k])}
        first_valid_idx == MinOf(valid) - 1
    IN IF valid = {} THEN Raise("TypeError")
       ELSE IF Value(ils_abs, picked[first_valid_idx + 1]) < Dots10
       THEN IndexResult(scan_slice.start + first_valid_idx, 0, 1)
       ELSE index_at_value_float(ils_abs, Dots10, Rat(scan_slice.start),
                                 ils_lost_idx, 1)

\* flight_phase.py 775-795: with ils_capture_idx as it was found
CaptureFound(ils_dots, ils_capture_idx, ils_lost_idx, frequency, masked_is_nan) ==
    IF ils_capture_idx.tag = "None" THEN NoneResult
    ELSE IF ils_capture_idx.tag # "index" THEN ils_capture_idx
    ELSE Established(ils_dots, IndexRat(ils_capture_idx), ils_lost_idx, frequency,
                     masked_is_nan)

\* flight_phase.py 759-773: with scan_start_idx as it was found
CaptureFrom(ils_dots, ils_abs, scan_slice, scan_start_idx, ils_lost_idx, frequency, masked_is_nan) ==
    IF scan_start_idx.tag \notin {"index", "None"} THEN scan_start_idx
    ELSE CaptureFound(ils_dots,
                      IF /\ scan_start_idx.tag = "index"
                         /\ IndexRat(scan_start_idx).num # 0
                      THEN index_at_value_float(ils_abs, Dots10,
                                                IndexRat(scan_start_idx),
                                                ils_lost_idx, 1)
                      ELSE FromStartOfSection(ils_abs, scan_slice, ils_lost_idx),
                      ils_lost_idx, frequency, masked_is_nan)

\* flight_phase.py 753-795: from the index where the beam was lost on
Capture(ils_dots, ils_abs, scan_slice, ils_lost_idx, frequency, masked_is_nan) ==
    CaptureFrom(ils_dots, ils_abs, scan_slice,
                index_at_value_float(ils_abs, Dots25,
                                     RatAdd(ils_lost_idx, Rat(-1)),
                                     Rat(scan_slice.start - 1), -1),
                ils_lost_idx, frequency, masked_is_nan)

\* flight_phase.py 746-751: with idx_200 as it was found
GlideslopeBelow(ils_dots, ils_abs, scan_slice, idx_200, ils_lost_idx, frequency, masked_is_nan) ==
    LET lost == IF idx_200.tag = "index" /\ RatLess(IndexRat(idx_200), ils_lost_idx)
                THEN IndexRat(idx_200) ELSE ils_lost_idx
        remaining == SliceIndices(Slice(scan_slice.start, TruncInt(lost)),
                                  Len(ils_dots.data))
    IN IF idx_200.tag \notin {"index", "None"} THEN idx_200
       ELSE IF Cardinality({k \in 1..Len(remaining) : Valid(ils_dots, remaining[k])}) < 5
       THEN NoneResult
       ELSE Capture(ils_dots, ils_abs, scan_slice, lost, frequency, masked_is_nan)

\* flight_phase.py 740-751: the glideslope is not followed below 200 ft
Glideslope(ils_dots, ils_abs, height, scan_slice, ils_lost_idx, frequency, masked_is_nan) ==
    GlideslopeBelow(ils_dots, ils_abs, scan_slice,
                    index_at_value(height, Feet200,
                                   Slice3(scan_slice.stop, scan_slice.start, -1),
                                   "closing"),
                    ils_lost_idx, frequency, masked_is_nan)

\* flight_phase.py 728-738: with last_25_idx as index_at_value gives it
LossOfCaptureAt(beam, ils_dots, ils_abs, height, scan_slice, last_25_idx, frequency, masked_is_nan) ==
    LET window == SliceIndices(scan_slice, Len(ils_abs.data))
        last_valid_idx == MaxOf({k \in 1..Len(window) : Valid(ils_abs, window[k])}) - 1
        established == Value(ils_abs, window[last_valid_idx + 1]) < Dots25
        ils_lost_idx == IF established THEN Rat(scan_slice.start + last_valid_idx + 1)
                        ELSE IndexRat(last_25_idx)
    IN IF ~established /\ last_25_idx.tag # "index" THEN last_25_idx
       ELSE IF beam = "glideslope"
       THEN Glideslope(ils_dots, ils_abs, height, scan_slice, ils_lost_idx,
                       frequency, masked_is_nan)
       ELSE Capture(ils_dots, ils_abs, scan_slice, ils_lost_idx, frequency,
                    masked_is_nan)

\* flight_phase.py 724-738: the loss of capture
LossOfCapture(beam, ils_dots, ils_abs, height, scan_slice, frequency, masked_is_nan) ==
    LossOfCaptureAt(beam, ils_dots, ils_abs, height, scan_slice,
                    index_at_value(ils_abs, Dots25,
                                   Slice3(scan_slice.stop, scan_slice.start, -1),
                                   "exact"),
                    frequency, masked_is_nan)

\* flight_phase.py 687-795. nomask: ils_dots has no mask array (possible when
\* no sample is masked); np.ma.count is then a Python int and the division
\* by a length of 0.0 raises, where a numpy integer gives nan and the test
\* against 0.4 fails. masked_is_nan is the build's conversion of a masked
\* sample in np.array.
scan_ils(beam, ils_dots, height, scan_slice, frequency, duration, nomask, masked_is_nan) ==
    LET window == SliceIndices(scan_slice, Len(ils_dots.data))
        valid == {k \in 1..Len(window) : Valid(ils_dots, window[k])}
        valid_slice == Slice(MinOf(valid) - 1 + scan_slice.start,
                             MaxOf(valid) - 1 + scan_slice.start)
        span == SliceIndices(valid_slice, Len(ils_dots.data))
        count == Cardinality({k \in 1..Len(span) : Valid(ils_dots, span[k])})
    IN IF beam \notin {"localizer", "glideslope"} THEN Raise("ValueError")
       ELSE IF Cardinality(valid) < duration * frequency THEN NoneResult
       ELSE IF valid = {} THEN NoneResult
       ELSE IF Len(span) = 0 /\ nomask THEN Raise("ZeroDivisionError")
       ELSE IF Len(span) > 0 /\ 10 * count < 4 * Len(span) THEN NoneResult
       ELSE LossOfCapture(beam, ils_dots,
                          Whole(repair_mask(Absolute(ils_dots), frequency, 5, FALSE,
                                            FALSE, FALSE, FALSE, None).ret.v),
                          height, scan_slice, frequency, masked_is_nan)

(***************************************************************************)
(* SpecIls: one call of scan_ils.                                          *)
(***************************************************************************)
\* The deviation array holds 1..MaxIlsLen samples.
MaxIlsLen == 5

\* -3, 0 and 2 dots
IlsLevels == {-360, 0, 240}

IlsFrequencies == {1, 2}

IlsDurations == {1, 3}

\* The height of n samples: a descent of 150 ft a sample to the ground.
Descent(n) ==
    [data |-> [i \in 1..n |-> 150 * (n - i)], mask |-> [i \in 1..n |-> FALSE]]

\* Scan windows over n samples, with whole bounds as the approaches have.
ScanWindows(n) == {Slice(0, n), Slice(1, n), Slice(0, n - 1)}

\* Deviations with any mask, the data under the mask being 0; an array with
\* no sample masked comes with and without a mask array.
InitIls ==
    /\ call = "start"
    /\ \E n \in 1..MaxIlsLen :
          \E m \in [1..n -> BOOLEAN], d \in [1..n -> IlsLevels] :
             /\ \A i \in 1..n : m[i] => d[i] = 0
             /\ \E b \in {"localizer", "glideslope"}, h \in {Descent(n)},
                   s \in ScanWindows(n), f \in IlsFrequencies, u \in IlsDurations :
                   /\ s.start < s.stop
                   /\ \E nomask \in {k \in BOOLEAN : k => \A i \in 1..n : ~m[i]} :
                         args = [beam |-> b,
                                 ils_dots |-> [data |-> d, mask |-> m],
                                 nomask |-> nomask,
                                 height |-> h, scan_slice |-> s, frequency |-> f,
                                 duration |-> u]
    /\ locals = NoLocals
    /\ ret = NoneResult

CallScanIls ==
    /\ call = "start"
    /\ call' = "scan_ils"
    /\ \E masked_is_nan \in BOOLEAN :
          ret' = scan_ils(args.beam, args.ils_dots, args.height, args.scan_slice,
                          args.frequency, args.duration, args.nomask,
                          masked_is_nan)
    /\ UNCHANGED <<args, locals>>

NextIls == CallScanIls

SpecIls == InitIls /\ [][NextIls]_vars

\* The samples of the scan window that are valid in ils_dots.
ValidInWindow ==
    {i \in 0..(Len(args.ils_dots.data) - 1) :
        /\ args.scan_slice.start <= i /\ i < args.scan_slice.stop
        /\ Valid(args.ils_dots, i)}

\* The absolute deviation is above 2.5 dots at every valid sample of the
\* window.
NeverWithin25 == \A i \in ValidInWindow : Abs(Value(args.ils_dots, i)) > Dots25

\* Less than 40% of the samples from the first valid one of the window to
\* the last are valid.
SparseSpan ==
    /\ ValidInWindow # {}
    /\ 10 * Cardinality(ValidInWindow)
           < 4 * (MaxOf(ValidInWindow) - MinOf(ValidInWindow) + 1)

TooFewValid == Cardinality(ValidInWindow) < args.duration * args.frequency

\* The interval returned is inside the scan window, capture before lost.
InsideWindow ==
    /\ args.scan_slice.start * ret.start.den <= ret.start.num
    /\ ret.stop.num <= args.scan_slice.stop * ret.stop.den
    /\ ~RatLess(ret.stop, ret.start)

C20_NoneWhenNeverWithin25 ==
    call = "scan_ils" /\ NeverWithin25 => ret = NoneResult

C20_NoneWhenTooFewOrSparse ==
    call = "scan_ils" /\ (TooFewValid \/ SparseSpan) => ret = NoneResult

C20_IntervalInsideWindow ==
    call = "scan_ils" /\ ret.tag = "slice" => InsideWindow

\* C20: scan_ils returns None whenever the absolute deviation is above 2.5
\* dots at every valid sample of the scan window, and whenever the window
\* has fewer than duration x frequency valid samples or its valid span is
\* under 40% valid; an interval returned lies inside the scan window with
\* capture index <= lost index.
C20_NoneUnlessEstablished ==
    /\ C20_NoneWhenNeverWithin25
    /\ C20_NoneWhenTooFewOrSparse
    /\ C20_IntervalInsideWindow

(***************************************************************************)
(* flight_phase.py: Takeoff.derive and Landing.derive. A phase is a slice  *)
(* whose bounds are rational numbers (num / den) or None.                  *)
(***************************************************************************)
\* The settings of the searches: 35 ft ends the takeoff, 50 ft starts the
\* landing, and a turn of 15 degrees is a turn onto or off the runway.
INITIAL_CLIMB_THRESHOLD == 35

LANDING_THRESHOLD_HEIGHT == 50

HEADING_TURN_ONTO_RUNWAY == 15

HEADING_TURN_OFF_RUNWAY == 15

\* np.ma.abs(head.array - datum) with datum = head.array[index]: a masked
\* datum masks every sample of the difference.
TurnFrom(array, index) ==
    [data |-> [i \in 1..Len(array.data) |-> Abs(array.data[i] - array.data[index + 1])],
     mask |-> [i \in 1..Len(array.data) |-> array.mask[i] \/ array.mask[index + 1]]]

\* flight_phase.py 1241-1242: if takeoff_begin is None: takeoff_begin = first
TakeoffBegin(found, first) ==
    IF found.tag = "None" THEN Rat(first) ELSE IndexRat(found)

\* flight_phase.py 1253: takeoff_end <= 0, true of None in Python 2
NotAboveZero(found) ==
    found.tag = "None" \/ ~RatLess(Rat(0), IndexRat(found))

RECURSIVE TakeoffLoop(_, _, _, _)
\* flight_phase.py 1239-1259: the rest of one pass of the loop, the two
\* searches made
TakeoffSection(fast, head, alt_aal, phases, first, found_begin, found_end) ==
    IF found_begin.tag \notin {"None", "index"} THEN found_begin
    ELSE IF found_end.tag \notin {"None", "index"} THEN found_end
    ELSE IF NotAboveZero(found_end) THEN TakeoffLoop(Tail(fast), head, alt_aal, phases)
    ELSE TakeoffLoop(Tail(fast), head, alt_aal,
                     create_phase(phases, <<Slice(TakeoffBegin(found_begin, first),
                                                  IndexRat(found_end))>>))

\* flight_phase.py 1214-1259: for speedy in fast
TakeoffLoop(fast, head, alt_aal, phases) ==
    IF fast = <<>> THEN List(phases)
    ELSE IF Head(fast).start = None THEN List(phases)
    ELSE IF Head(fast).start >= Len(head.array.data) THEN Raise("IndexError")
    ELSE TakeoffSection(fast, head, alt_aal, phases,
                        Max2(0, Head(fast).start - 300 * head.frequency),
                        index_at_value(TurnFrom(head.array, Head(fast).start),
                                       HEADING_TURN_ONTO_RUNWAY,
                                       Slice3(Head(fast).start,
                                              Max2(0, Head(fast).start - 300 * head.frequency),
                                              -1),
                                       "exact"),
                        index_at_value(alt_aal.array, INITIAL_CLIMB_THRESHOLD,
                                       Slice(Head(fast).start,
                                             Head(fast).start + 300 * alt_aal.frequency),
                                       "exact"))

\* Takeoff.derive(head, alt_aal, fast)
Takeoff_derive(head, alt_aal, fast) == TakeoffLoop(fast, head, alt_aal, <<>>)

\* A float as a bound of a numpy slice and as the size of np.ma.zeros: the
\* whole part (library.py 3267-3270 inside slices_or).
WholeSlice(begin, end) == Slice(TruncInt(begin), TruncInt(end))

\* flight_phase.py 1104-1107 with the fallback forgotten: without a turn off
\* the runway the landing ends at the end of the Fast section.
LandingEndAtRun(found, head, landing_run) ==
    IF found.tag = "None" THEN Rat(landing_run) ELSE IndexRat(found)

\* flight_phase.py 1104-1107: if landing_end is None:
\* landing_end = len(head.array) - 1
LandingEnd(found, head, landing_run) ==
    IF found.tag = "None" THEN Rat(Len(head.array.data) - 1) ELSE IndexRat(found)

RECURSIVE LandingLoop(_, _, _, _)
\* flight_phase.py 1111-1112: phases = slices_or(phases, new_phase); a
\* result that is no list fails in the next slices_or or in create_phases.
LandingMerge(fast, head, alt_aal, merged) ==
    IF merged.tag = "list" THEN LandingLoop(Tail(fast), head, alt_aal, merged.v)
    ELSE IF merged.tag = "None"
    THEN Raise(IF Len(fast) > 1 THEN "ValueError" ELSE "TypeError")
    ELSE merged

\* flight_phase.py 1087-1112: the rest of one pass of the loop, the altitude
\* search made
LandingSection(fast, head, alt_aal, phases, landing_run, found_begin, found_end) ==
    IF found_begin.tag \notin {"None", "index"} THEN found_begin
    ELSE IF found_begin.tag = "None" THEN LandingLoop(Tail(fast), head, alt_aal, phases)
    ELSE IF found_end.tag \notin {"None", "index"} THEN found_end
    ELSE LandingMerge(fast, head, alt_aal,
                      slices_or(<<phases,
                                  <<WholeSlice(IndexRat(found_begin),
                                               LandingEnd(found_end, head, landing_run))>>>>,
                                None, None))

\* flight_phase.py 1065-1112: for speedy in fast
LandingLoop(fast, head, alt_aal, phases) ==
    IF fast = <<>> THEN List(phases)
    ELSE IF Head(fast).stop = None \/ Head(fast).stop >= Len(alt_aal.array.data)
    THEN List(phases)
    ELSE IF Head(fast).stop >= Len(head.array.data) THEN Raise("IndexError")
    ELSE LandingSection(fast, head, alt_aal, phases, Head(fast).stop,
                        index_at_value(alt_aal.array, LANDING_THRESHOLD_HEIGHT,
                                       Slice(Head(fast).stop - 300 * alt_aal.frequency,
                                             Head(fast).stop),
                                       "exact"),
                        index_at_value(TurnFrom(head.array, Head(fast).stop),
                                       HEADING_TURN_OFF_RUNWAY,
                                       Slice(Head(fast).stop,
                                             Head(fast).stop + 480 * head.frequency),
                                       "exact"))

\* Landing.derive(head, alt_aal, fast)
Landing_derive(head, alt_aal, fast) == LandingLoop(fast, head, alt_aal, <<>>)

(***************************************************************************)
(* SpecRunway: one call of Takeoff.derive or of Landing.derive.            *)
(***************************************************************************)
\* The heading and the altitude are made of up to MaxTrackSegments segments
\* of constant samples, LongestTrack samples at most.
MaxTrackSegments == 3

LongestTrack == 303

\* A segment is on the ground, in line with the runway or 20 degrees off it,
\* or at 100 ft in line with it, or one sample masked in both series; the
\* long segment outlasts the 300 s of a search at 1 Hz.
TrackShapes ==
    [heading : {0}, altitude : {0}, masked : {FALSE}, length : {1, 301}]
    \cup [heading : {0}, altitude : {100}, masked : {FALSE}, length : {1}]
    \cup [heading : {20}, altitude : {0}, masked : {FALSE}, length : {1}]
    \cup [heading : {0}, altitude : {0}, masked : {TRUE}, length : {1}]

TrackFrequencies == {1, 2}

Tracks ==
    {s \in UNION {[1..n -> TrackShapes] : n \in 1..MaxTrackSegments} :
        SamplesOf(s) <= LongestTrack}

RECURSIVE TrackOf(_)
\* The two series of a track.
TrackOf(segments) ==
    IF segments = <<>>
    THEN [head |-> [data |-> <<>>, mask |-> <<>>], alt_aal |-> [data |-> <<>>, mask |-> <<>>]]
    ELSE LET s == Head(segments)
             rest == TrackOf(Tail(segments))
         IN [head |-> [data |-> [i \in 1..s.length |-> s.heading] \o rest.head.data,
                       mask |-> [i \in 1..s.length |-> s.masked] \o rest.head.mask],
             alt_aal |-> [data |-> [i \in 1..s.length |-> s.altitude] \o rest.alt_aal.data,
                          mask |-> [i \in 1..s.length |-> s.masked] \o rest.alt_aal.mask]]

\* The indices where a segment of the track starts, and the length.
RECURSIVE TrackEdges(_, _)
TrackEdges(segments, from) ==
    IF segments = <<>> THEN {from}
    ELSE {from} \cup TrackEdges(Tail(segments), from + Head(segments).length)

\* The Fast sections of a track: one or two sections that start and stop
\* where a segment starts, the first perhaps without a start, the last
\* perhaps without a stop, as Fast.derive makes them; or no section.
FastSections(segments) ==
    LET n == SamplesOf(segments)
        edges == TrackEdges(segments, 0)
        starts == (edges \ {n}) \cup {None}
        stops == (edges \ {0}) \cup {None}
    IN {<<>>}
       \cup {<<Slice(p[1], p[2])>> :
                p \in {q \in starts \X stops :
                          /\ q[1] # None \/ q[2] # None
                          /\ q[2] = None \/ q[2] > q[1]}}
       \cup {<<Slice(p[1], p[2]), Slice(p[3], p[4])>> :
                p \in {q \in starts \X (stops \ {None}) \X (starts \ {None}) \X stops :
                          /\ q[2] > q[1]
                          /\ q[3] > q[2]
                          /\ q[4] = None \/ q[4] > q[3]}}

InitRunway ==
    /\ call = "start"
    /\ \E s \in Tracks, hz \in TrackFrequencies :
           \E fast \in FastSections(s) :
               args = [head |-> [array |-> TrackOf(s).head, frequency |-> hz],
                       alt_aal |-> [array |-> TrackOf(s).alt_aal, frequency |-> hz],
                       fast |-> fast]
    /\ locals = NoLocals
    /\ ret = NoneResult

CallTakeoffDerive ==
    /\ call = "start"
    /\ call' = "Takeoff.derive"
    /\ ret' = Takeoff_derive(args.head, args.alt_aal, args.fast)
    /\ UNCHANGED <<args, locals>>

CallLandingDerive ==
    /\ call = "start"
    /\ call' = "Landing.derive"
    /\ ret' = Landing_derive(args.head, args.alt_aal, args.fast)
    /\ UNCHANGED <<args, locals>>

NextRunway == CallTakeoffDerive \/ CallLandingDerive

SpecRunway == InitRunway /\ [][NextRunway]_vars

\* Samples i and j of the array, both valid, lie on the two sides of the
\* threshold or on it.
CrossesBetween(array, threshold, i, j) ==
    /\ Valid(array, i) /\ Valid(array, j)
    /\ (Value(array, i) - threshold) * (Value(array, j) - threshold) <= 0

\* No two neighbouring samples of lo..hi cross the threshold.
NothingFound(array, threshold, lo, hi) ==
    \A i \in lo..(hi - 1) : ~CrossesBetween(array, threshold, i, i + 1)

OneTakeoffSection ==
    /\ call = "Takeoff.derive"
    /\ Len(args.fast) = 1
    /\ args.fast[1].start # None

OneLandingSection ==
    /\ call = "Landing.derive"
    /\ Len(args.fast) = 1
    /\ args.fast[1].stop # None
    /\ args.fast[1].stop < Len(args.alt_aal.array.data)

\* The window edge of the search back from the start of the Fast section.
TakeoffFirst == Max2(0, args.fast[1].start - 300 * args.head.frequency)

LastSample == Len(args.head.array.data) - 1

TakeoffTurnNotFound ==
    NothingFound(TurnFrom(args.head.array, args.fast[1].start), HEADING_TURN_ONTO_RUNWAY,
                 TakeoffFirst, args.fast[1].start)

TakeoffClimbNotFound ==
    NothingFound(args.alt_aal.array, INITIAL_CLIMB_THRESHOLD, args.fast[1].start,
                 Min2(args.fast[1].start + 300 * args.alt_aal.frequency - 1, LastSample))

LandingTurnNotFound ==
    NothingFound(TurnFrom(args.head.array, args.fast[1].stop), HEADING_TURN_OFF_RUNWAY,
                 args.fast[1].stop,
                 Min2(args.fast[1].stop + 480 * args.head.frequency - 1, LastSample))

LandingDescentNotFound ==
    NothingFound(args.alt_aal.array, LANDING_THRESHOLD_HEIGHT,
                 Max2(0, args.fast[1].stop - 300 * args.alt_aal.frequency),
                 args.fast[1].stop - 1)

OnePhase == ret.tag = "list" /\ Len(ret.v) = 1

\* C21: in Takeoff.derive and Landing.derive, when the heading search or the
\* altitude search finds nothing inside its scan window, the phase of that
\* Fast interval is still emitted, and nothing is raised.
C21_FailedSearchStillEmits ==
    /\ OneTakeoffSection /\ (TakeoffTurnNotFound \/ TakeoffClimbNotFound) => OnePhase
    /\ OneLandingSection /\ (LandingTurnNotFound \/ LandingDescentNotFound) => OnePhase

\* C21 as the code has it: nothing is raised; a heading search that finds
\* nothing leaves the window edge (Takeoff) or the last sample (Landing) as
\* the bound of the phase emitted; an altitude search that finds nothing
\* leaves the Fast interval without a phase.
C21_HeadingFallsBackAltitudeSkips ==
    /\ call \in {"Takeoff.derive", "Landing.derive"} => ret.tag = "list"
    /\ OneTakeoffSection /\ TakeoffClimbNotFound => ret = List(<<>>)
    /\ OneTakeoffSection /\ TakeoffTurnNotFound /\ ~TakeoffClimbNotFound
           => OnePhase /\ ret.v[1].start = Rat(TakeoffFirst)
    /\ OneLandingSection /\ LandingDescentNotFound => ret = List(<<>>)
    /\ OneLandingSection /\ LandingTurnNotFound /\ ~LandingDescentNotFound
           => OnePhase /\ ret.v[1].stop = LastSample

\* A takeoff run of more than 300 s in line with the runway: the phase
\* starts at the window edge, sample 1, not at the start of the data.
C21_Witness ==
    /\ OneTakeoffSection
    /\ TakeoffTurnNotFound /\ ~TakeoffClimbNotFound
    /\ TakeoffFirst = 1
    /\ OnePhase /\ ret.v[1].start = Rat(1)

(***************************************************************************)
(* Derivations on degenerate inputs: InitialCruise, Mobile,                *)
(* CombinedDescent and GoAroundAndClimbout of flight_phase.py, and         *)
(* cycle_match of library.py.                                              *)
(***************************************************************************)
\* InitialCruise.derive(cruises): cruises[0] of an empty list is an
\* IndexError.
InitialCruise_derive(cruises) ==
    IF cruises = <<>> THEN Raise("IndexError")
    ELSE IF cruises[1].stop - cruises[1].start > 330
    THEN List(<<Slice(cruises[1].start + 300, cruises[1].start + 330)>>)
    ELSE List(<<>>)

\* Rate of turn and groundspeed from which the aircraft counts as moving.
HEADING_RATE_FOR_MOBILE == 2

GROUNDSPEED_FOR_MOBILE == 5

\* np.ma.flatnotmasked_edges(np.ma.masked_less(np.ma.abs(array), limit)):
\* the first and the last valid sample not below the limit, None (the empty
\* sequence) when there is none.
MovingEdges(array, limit) ==
    LET moving == {i \in 0..(Len(array.data) - 1) :
                      ~array.mask[i + 1] /\ Abs(array.data[i + 1]) >= limit}
    IN IF moving = {} THEN <<>> ELSE <<MinOf(moving), MaxOf(moving)>>

\* flight_phase.py 1044-1049: without a recorded groundspeed the takeoff
\* and the landing widen the edges
MobileFromRunway(move, toffs, lands) ==
    <<IF toffs # <<>> THEN Min2(move[1], toffs[1].start) ELSE move[1],
      IF lands # <<>> THEN Max2(move[2], lands[Len(lands)].stop) ELSE move[2]>>

\* flight_phase.py 1034-1042: "move_gspd[0]" of None is a TypeError
MobileFromGroundspeed(move, move_gspd) ==
    IF move_gspd = <<>> THEN <<>>
    ELSE <<Min2(move[1], move_gspd[1]), Max2(move[2], move_gspd[2])>>

\* Mobile.derive(rot, gspd, toffs, lands); "if gspd" asks whether a
\* groundspeed is recorded.
Mobile_derive(rot, gspd, toffs, lands) ==
    LET move == MovingEdges(rot.array, HEADING_RATE_FOR_MOBILE)
        edges == IF gspd.recorded
                 THEN MobileFromGroundspeed(move, MovingEdges(gspd.array, GROUNDSPEED_FOR_MOBILE))
                 ELSE MobileFromRunway(move, toffs, lands)
    IN IF move = <<>> THEN List(<<>>)
       ELSE IF edges = <<>> THEN Raise("TypeError")
       ELSE List(<<Slice(edges[1], edges[2])>>)

\* KeyTimeInstanceNode.get_ordered_by_index(): the indexes in ascending order
get_ordered_by_index(ktis) ==
    LET ordered == SortSeq(ktis, LAMBDA x, y : x.index < y.index)
    IN [k \in 1..Len(ordered) |-> ordered[k].index]

\* zip(start_list, end_list)
Zip(start_list, end_list) ==
    [k \in 1..Min2(Len(start_list), Len(end_list)) |-> Slice(start_list[k], end_list[k])]

\* CombinedDescent.derive(tod_set, bod_set, liftoff, touchdown); the assert
\* is not run by an optimised build (python -O).
CombinedDescent_derive(tod_set, bod_set, optimised) ==
    LET end_list == get_ordered_by_index(bod_set)
        start_list == get_ordered_by_index(tod_set)
    IN IF ~optimised /\ Len(start_list) # Len(end_list) THEN Raise("AssertionError")
       ELSE List(Zip(start_list, end_list))

RECURSIVE CycleLoop(_, _)
\* library.py 1021-1036: the while loop of cycle_finder
CycleLoop(l, min_step) ==
    IF LoopCondition(l, min_step) THEN CycleLoop(RemoveReversal(l), min_step)
    ELSE Peaks(l)

\* cycle_finder(array, min_step, include_ends)
cycle_finder(array, min_step, include_ends) ==
    IF Len(array.data) = 0 THEN NoneResult
    ELSE CycleLoop(FindPeaks(array, include_ends), min_step)

\* Altitude below which a descent is an approach, and the descent and climb
\* that make a go-around (feet).
INITIAL_APPROACH_THRESHOLD == 3000

DESCENT_LOW_CLIMB_THRESHOLD == 500

\* np.ma.masked_greater(array, value): a new array
masked_greater(array, value) ==
    [data |-> array.data,
     mask |-> [i \in 1..Len(array.data) |-> array.mask[i] \/ array.data[i] > value]]

\* array[this_slice] for a slice with whole bounds inside the array
SubArray(array, this_slice) ==
    [data |-> SubSeq(array.data, this_slice.start + 1, this_slice.stop),
     mask |-> SubSeq(array.mask, this_slice.start + 1, this_slice.stop)]

RECURSIVE DlcLoop(_, _, _, _)
\* library.py 1578-1582: for this_dlc in np.ma.clump_unmasked(dlc); the
\* values are shifted by this_dlc.start as the indexes are.
DlcLoop(dlc, clumps, pk_idx_list, pk_val_list) ==
    IF clumps = <<>> THEN [tag |-> "peaks", idxs |-> pk_idx_list, vals |-> pk_val_list]
    ELSE LET this_dlc == Head(clumps)
             pk == CHOOSE r \in {cycle_finder(a, DESCENT_LOW_CLIMB_THRESHOLD, TRUE) :
                                     a \in {SubArray(dlc, this_dlc)}} : TRUE
         IN DlcLoop(dlc, Tail(clumps),
                    pk_idx_list \o [k \in 1..Len(pk.idxs) |-> pk.idxs[k] + this_dlc.start],
                    pk_val_list \o [k \in 1..Len(pk.vals) |-> pk.vals[k] + this_dlc.start])

\* library.py 1562-1583: find_dlcs(array). ret is what is returned, array
\* the array of the caller after the call: repair_mask is called without
\* copy and repairs it in place.
find_dlcs(array) ==
    CHOOSE found \in
        {IF rep.ret.tag # "array" THEN rep
         ELSE [ret |-> CHOOSE pk \in
                           {DlcLoop(dlc,
                                    clump_unmasked([i \in 1..Len(dlc.mask) |->
                                                       IF dlc.mask[i] THEN 1 ELSE 0],
                                                   FALSE),
                                    <<>>, <<>>) :
                               dlc \in {masked_greater(Whole(rep.ret.v),
                                                       INITIAL_APPROACH_THRESHOLD)}} : TRUE,
               array |-> rep.array] :
            rep \in {repair_mask(array, 1, None, FALSE, FALSE, FALSE, FALSE, None)}} : TRUE

\* np.argmin(np.abs(np.array(cycle_idxs) - idx)): the first position (from
\* 0) of the cycle index nearest to idx
NearestCycle(idx, cycle_idxs) ==
    MinOf({k \in 1..Len(cycle_idxs) :
              \A j \in 1..Len(cycle_idxs) :
                  Abs(cycle_idxs[k] - idx) <= Abs(cycle_idxs[j] - idx)}) - 1

\* np.min(np.diff(cycle_idxs)), of two indexes or more
MinDiff(cycle_idxs) ==
    MinOf({cycle_idxs[k + 1] - cycle_idxs[k] : k \in 1..(Len(cycle_idxs) - 1)})

\* library.py 1067: if min_idx < dist
CloseEnough(idx, cycle_idxs, min_idx, dist) == RatLess(Rat(min_idx), dist)

\* library.py 1045-1073: cycle_match(idx, cycle_idxs, dist); np.min and
\* np.argmin of an empty array raise ValueError.
cycle_match(idx, cycle_idxs, dist) ==
    IF dist = None /\ Len(cycle_idxs) < 2 THEN Raise("ValueError")
    ELSE IF Len(cycle_idxs) = 0 THEN Raise("ValueError")
    ELSE LET d == IF dist = None THEN [num |-> MinDiff(cycle_idxs), den |-> 4]
                  ELSE Rat(dist)
             min_idx == NearestCycle(idx, cycle_idxs)
         IN IF CloseEnough(idx, cycle_idxs, min_idx, d)
            THEN [tag |-> "pair",
                  prev |-> IF min_idx > 0 THEN cycle_idxs[min_idx] ELSE None,
                  post |-> IF min_idx < Len(cycle_idxs) - 1 THEN cycle_idxs[min_idx + 2]
                           ELSE None]
            ELSE Raise("ValueError")

\* flight_phase.py 141-170: for ga in gas. A cycle matched starts the search
\* for the bounds of the phase (flight_phase.py 147-169).
GoAroundLoop(gas, alt_idxs) ==
    IF gas = <<>> THEN List(<<>>)
    ELSE LET matched == cycle_match(Head(gas).index, alt_idxs, 1000)
         IN IF matched.tag # "pair" THEN matched
            ELSE [tag |-> "matched", v |-> <<matched.prev, matched.post>>]

\* flight_phase.py 131-171: GoAroundAndClimbout.derive(alt_aal, gas) up to
\* the match of the first go-around; ret is what the call gives, array the
\* altitude array of the caller after it.
GoAroundAndClimbout_derive(alt_aal, gas) ==
    LET dlcs == find_dlcs(alt_aal.array)
        smoothed_alt == moving_average(Whole(dlcs.array), 15, NoWeightings, TRUE)
    IN IF dlcs.ret.tag # "peaks" THEN dlcs
       ELSE IF smoothed_alt.ret.tag \notin {"array", "None"} THEN smoothed_alt
       ELSE [ret |-> GoAroundLoop(gas, dlcs.ret.idxs), array |-> smoothed_alt.array]

(***************************************************************************)
(* SpecDegenerate: one derivation on inputs with little or nothing in      *)
(* them. args.node names the derivation the arguments are for.             *)
(***************************************************************************)
\* Rate of turn, groundspeed and altitude hold 1..MaxQuietLen samples here.
MaxQuietLen == 2

\* Key time instances and phases are given in lists of up to MaxKtis.
MaxKtis == 2

CruiseLists ==
    LET cruises == {Slice(0, 1), Slice(0, 330), Slice(0, 331), Slice(10, 400)}
    IN UNION {[1..n -> cruises] : n \in 0..MaxKtis}

\* Arrays of 1..MaxQuietLen samples that are 0 or level, one masked at most.
QuietArrays(level) ==
    UNION {{[data |-> d, mask |-> m] : d \in [1..n -> {0, level}], m \in MasksOf(n)} :
              n \in 1..MaxQuietLen}

RunwayPhases == {<<>>, <<Slice(0, 1)>>, <<Slice(1, 2)>>}

KtiLists(indexes) ==
    UNION {[1..n -> [index : indexes]] : n \in 0..MaxKtis}

\* Altitudes that stay above the approach threshold, and altitudes that come
\* below it.
HighAltitudes ==
    UNION {[data : [1..n -> {3500, 4000}], mask : {[i \in 1..n |-> FALSE]}] :
              n \in 1..MaxQuietLen}

LowAltitudes ==
    UNION {{[data |-> d, mask |-> m] : d \in [1..n -> {2000, 4000}], m \in MasksOf(n)} :
              n \in 1..MaxQuietLen}

DegenerateArgs ==
    {[node |-> "InitialCruise", cruises |-> c] : c \in CruiseLists}
    \cup {[node |-> "Mobile", rot |-> [array |-> r], gspd |-> g, toffs |-> t, lands |-> l] :
             r \in QuietArrays(HEADING_RATE_FOR_MOBILE),
             g \in {[recorded |-> FALSE, array |-> [data |-> <<>>, mask |-> <<>>]]}
                   \cup {[recorded |-> TRUE, array |-> a] :
                            a \in QuietArrays(GROUNDSPEED_FOR_MOBILE)},
             t \in RunwayPhases, l \in RunwayPhases}
    \cup {[node |-> "CombinedDescent", tod_set |-> t, bod_set |-> b, optimised |-> o] :
             t \in KtiLists(0..2), b \in KtiLists(1..3), o \in BOOLEAN}
    \cup {[node |-> "GoAroundAndClimbout", alt_aal |-> [array |-> a], gas |-> g] :
             a \in HighAltitudes, g \in KtiLists(0..1)}
    \cup {[node |-> "GoAroundAndClimbout", alt_aal |-> [array |-> a], gas |-> <<>>] :
             a \in LowAltitudes}

InitDegenerate ==
    /\ call = "start"
    /\ args \in DegenerateArgs
    /\ args.node = "Mobile" /\ args.gspd.recorded
           => Len(args.gspd.array.data) = Len(args.rot.array.data)
    /\ locals = NoLocals
    /\ ret = NoneResult

CallInitialCruiseDerive ==
    /\ call = "start"
    /\ args.node = "InitialCruise"
    /\ call' = "InitialCruise.derive"
    /\ ret' = InitialCruise_derive(args.cruises)
    /\ UNCHANGED <<args, locals>>

CallMobileDerive ==
    /\ call = "start"
    /\ args.node = "Mobile"
    /\ call' = "Mobile.derive"
    /\ ret' = Mobile_derive(args.rot, args.gspd, args.toffs, args.lands)
    /\ UNCHANGED <<args, locals>>

CallCombinedDescentDerive ==
    /\ call = "start"
    /\ args.node = "CombinedDescent"
    /\ call' = "CombinedDescent.derive"
    /\ ret' = CombinedDescent_derive(args.tod_set, args.bod_set, args.optimised)
    /\ UNCHANGED <<args, locals>>

CallGoAroundAndClimboutDerive ==
    /\ call = "start"
    /\ args.node = "GoAroundAndClimbout"
    /\ call' = "GoAroundAndClimbout.derive"
    /\ ret' = GoAroundAndClimbout_derive(args.alt_aal, args.gas).ret
    /\ UNCHANGED <<args, locals>>

NextDegenerate ==
    \/ CallInitialCruiseDerive
    \/ CallMobileDerive
    \/ CallCombinedDescentDerive
    \/ CallGoAroundAndClimboutDerive

SpecDegenerate == InitDegenerate /\ [][NextDegenerate]_vars

NoIntervals == ret = List(<<>>)

\* The groundspeed is recorded and no valid sample reaches the limit.
NeverMobile ==
    /\ args.gspd.recorded
    /\ \A i \in 1..Len(args.gspd.array.data) :
           ~args.gspd.array.mask[i] => args.gspd.array.data[i] < GROUNDSPEED_FOR_MOBILE

\* No sample of the altitude is masked or at or below the approach
\* threshold: there is no altitude cycle at all.
NoAltitudeCycle ==
    \A i \in 1..Len(args.alt_aal.array.data) :
        /\ ~args.alt_aal.array.mask[i]
        /\ args.alt_aal.array.data[i] > INITIAL_APPROACH_THRESHOLD

\* C22: a derivation given degenerate-but-valid inputs returns with zero
\* intervals and does not raise: InitialCruise with no Cruise phase, Mobile
\* when Groundspeed never reaches GROUNDSPEED_FOR_MOBILE, CombinedDescent
\* with differing numbers of Top Of Descent and Bottom Of Descent, and
\* GoAroundAndClimbout when a go-around has no matching altitude cycle.
C22_DegenerateGivesNoIntervals ==
    /\ call = "InitialCruise.derive" /\ args.cruises = <<>> => NoIntervals
    /\ call = "Mobile.derive" /\ NeverMobile => NoIntervals
    /\ call = "CombinedDescent.derive" /\ Len(args.tod_set) # Len(args.bod_set)
           => NoIntervals
    /\ call = "GoAroundAndClimbout.derive" /\ args.gas # <<>> /\ NoAltitudeCycle
           => NoIntervals

(***************************************************************************)
(* SpecCycleMatch: one call of cycle_match(idx, cycle_idxs, dist).         *)
(***************************************************************************)
\* Up to MaxCycles cycle indexes of 0..MaxIndex, ascending as cycle_finder
\* gives them.
MaxCycles == 3

CycleIdxs ==
    {s \in UNION {[1..n -> 0..MaxIndex] : n \in 0..MaxCycles} :
        \A k \in 1..(Len(s) - 1) : s[k] < s[k + 1]}

InitCycleMatch ==
    /\ call = "start"
    /\ args \in [idx : 0..MaxIndex, cycle_idxs : CycleIdxs, dist : {None} \cup 1..MaxIndex]
    /\ locals = NoLocals
    /\ ret = NoneResult

CallCycleMatch ==
    /\ call = "start"
    /\ call' = "cycle_match"
    /\ ret' = cycle_match(args.idx, args.cycle_idxs, args.dist)
    /\ UNCHANGED <<args, locals>>

NextCycleMatch == CallCycleMatch

SpecCycleMatch == InitCycleMatch /\ [][NextCycleMatch]_vars

\* Four times the distance allowed: dist, or a quarter of the smallest gap
\* between cycle indexes (no distance at all without two indexes).
FourDist ==
    IF args.dist # None THEN 4 * args.dist
    ELSE IF Len(args.cycle_idxs) >= 2 THEN MinDiff(args.cycle_idxs)
    ELSE 0

\* Some cycle index lies within the distance allowed of idx.
SomeCycleWithinDist ==
    \E k \in 1..Len(args.cycle_idxs) : 4 * Abs(args.cycle_idxs[k] - args.idx) <= FourDist

\* C30: cycle_match returns the cycle indexes before and after the cycle
\* index nearest to idx only when that nearest index lies within dist of
\* idx, and raises ValueError whenever no cycle index lies within dist.
C30_MatchOnlyWithinDist ==
    call = "cycle_match" =>
        /\ ret.tag = "pair" => SomeCycleWithinDist
        /\ ~SomeCycleWithinDist => ret = Raise("ValueError")

(***************************************************************************)
(* SpecContract: one call of slices_or, slices_overlap, slices_not,        *)
(* index_at_value or repair_mask with arguments that break its contract,   *)
(* or keep it. args.fn names the function called.                          *)
(***************************************************************************)
\* Slice bounds are None or 0..MaxContractIndex; arrays hold up to
\* MaxContractIndex samples.
MaxContractIndex == 2

\* Steps: none, forward, reverse, zero and a stride.
ContractSteps == {None, 1, -1, 0, 2}

ContractBounds == {None} \cup 0..MaxContractIndex

SteppedSlices == {Slice3(a, b, s) : a \in ContractBounds, b \in ContractBounds, s \in ContractSteps}

\* An argument of slices_or: a list, or None in place of one.
OrArguments ==
    [none : {FALSE}, v : {<<>>, <<Slice(0, 2)>>, <<Slice(1, None)>>, <<Slice(0, 1), Slice(2, 3)>>}]
    \cup {[none |-> TRUE, v |-> <<>>]}

ContractArrays ==
    UNION {[data : [1..n -> {0, 2}], mask : [1..n -> BOOLEAN]] : n \in 0..MaxContractIndex}

ContractArgs(slices) ==
    {[fn |-> "slices_or", slice_lists |-> l] :
        l \in UNION {[1..n -> OrArguments] : n \in 1..2}}
    \cup {[fn |-> "slices_overlap", first_slice |-> f, second_slice |-> s] :
             f \in slices, s \in slices}
    \cup {[fn |-> "slices_not", slice_list |-> l] :
             l \in UNION {[1..n -> slices] : n \in 1..2}}
    \cup {[fn |-> "index_at_value", array |-> a, threshold |-> 1, _slice |-> s] :
             a \in ContractArrays, s \in slices \cup {Slice3(None, None, -2)}}
    \cup {[fn |-> "repair_mask", array |-> a, zero_if_masked |-> z, copy |-> c] :
             a \in ContractArrays, z \in BOOLEAN, c \in BOOLEAN}

InitContract ==
    /\ call = "start"
    /\ args \in ContractArgs(SteppedSlices)
    /\ locals = NoLocals
    /\ ret = NoneResult

\* library.py 3247-3250: slices_or(*slice_lists), an argument that is None
\* raising ValueError when the scan comes to it
slices_or_call(arguments) ==
    IF \E k \in 1..Len(arguments) : arguments[k].none THEN Raise("ValueError")
    ELSE slices_or([k \in 1..Len(arguments) |-> arguments[k].v], None, None)

CallSlicesOr ==
    /\ call = "start"
    /\ args.fn = "slices_or"
    /\ call' = "slices_or"
    /\ ret' = slices_or_call(args.slice_lists)
    /\ UNCHANGED <<args, locals>>

CallSlicesOverlap ==
    /\ call = "start"
    /\ args.fn = "slices_overlap"
    /\ call' = "slices_overlap"
    /\ ret' = IF slices_overlap_raises(args.first_slice, args.second_slice)
              THEN Raise("ValueError")
              ELSE Bool(slices_overlap(args.first_slice, args.second_slice))
    /\ UNCHANGED <<args, locals>>

CallSlicesNotStepped ==
    /\ call = "start"
    /\ args.fn = "slices_not"
    /\ call' = "slices_not"
    /\ ret' = slices_not(args.slice_list, None, None)
    /\ UNCHANGED <<args, locals>>

CallIndexAtValueStepped ==
    /\ call = "start"
    /\ args.fn = "index_at_value"
    /\ call' = "index_at_value"
    /\ ret' = index_at_value(args.array, args.threshold, args._slice, "exact")
    /\ UNCHANGED <<args, locals>>

CallRepairMaskMasked ==
    /\ call = "start"
    /\ args.fn = "repair_mask"
    /\ call' = "repair_mask"
    /\ ret' = repair_mask(args.array, 1, None, FALSE, args.copy, FALSE,
                          args.zero_if_masked, None).ret
    /\ UNCHANGED <<args, locals>>

NextContract ==
    \/ CallSlicesOr
    \/ CallSlicesOverlap
    \/ CallSlicesNotStepped
    \/ CallIndexAtValueStepped
    \/ CallRepairMaskMasked

SpecContract == InitContract /\ [][NextContract]_vars

RaisesValueError == ret = Raise("ValueError")

C23_SlicesOrNone ==
    call = "slices_or" /\ (\E k \in 1..Len(args.slice_lists) : args.slice_lists[k].none)
        => RaisesValueError

C23_SlicesOverlapNegative ==
    call = "slices_overlap" /\ (args.first_slice.step = -1 \/ args.second_slice.step = -1)
        => RaisesValueError

C23_SlicesNotNonUnity ==
    call = "slices_not" /\ (\E k \in 1..Len(args.slice_list) :
                                args.slice_list[k].step \notin {None, 1})
        => RaisesValueError

C23_IndexAtValueStep ==
    call = "index_at_value" /\ args._slice.step \notin {None, 1, -1} => RaisesValueError

C23_RepairMaskAllMasked ==
    call = "repair_mask" /\ Count(args.array) = 0 /\ ~args.zero_if_masked
        => RaisesValueError

\* C23: input-contract violations raise ValueError at once instead of
\* returning a result: slices_or with an argument None, slices_overlap with
\* a negative step, slices_not with a non-unity step (greater than 1, zero
\* or negative), index_at_value with a step that is neither 1 nor -1, and
\* repair_mask with the whole series masked and zero_if_masked false.
C23_ContractViolationsRaiseValueError ==
    /\ C23_SlicesOrNone
    /\ C23_SlicesOverlapNegative
    /\ C23_SlicesNotNonUnity
    /\ C23_IndexAtValueStep
    /\ C23_RepairMaskAllMasked

(***************************************************************************)
(* SpecFrame: derivations that condition an input series, called with the  *)
(* array of the parameter itself. locals.array is that array after the     *)
(* call.                                                                   *)
(***************************************************************************)
\* settings: the default repair_duration of repair_mask (seconds), the rate
\* of turn that makes a turn (degrees per second), and the longitudinal
\* acceleration of a takeoff run (g, a tenth as a quotient).
REPAIR_DURATION == 10

RATE_OF_TURN_FOR_FLIGHT_PHASES == 2

TAKEOFF_ACCELERATION_THRESHOLD == [num |-> 1, den |-> 10]

RECURSIVE DlcPhases(_, _, _, _)
\* flight_phase.py 579-582: for n in range(1, len(pk_vals) - 1)
DlcPhases(pk_idxs, pk_vals, n, phases) ==
    IF n > Len(pk_vals) - 2 THEN phases
    ELSE DlcPhases(pk_idxs, pk_vals, n + 1,
                   IF /\ pk_vals[n] - pk_vals[n + 1] > DESCENT_LOW_CLIMB_THRESHOLD
                      /\ pk_vals[n + 2] - pk_vals[n + 1] > DESCENT_LOW_CLIMB_THRESHOLD
                   THEN create_phase(phases, <<Slice(pk_idxs[n], pk_idxs[n + 2])>>)
                   ELSE phases)

\* flight_phase.py 573-582: DescentLowClimb.derive
DescentLowClimb_derive(alt_aal) ==
    CHOOSE derived \in
        {IF found.ret.tag # "peaks" THEN found
         ELSE [ret |-> IF Len(found.ret.vals) < 3 THEN NoneResult
                       ELSE List(DlcPhases(found.ret.idxs, found.ret.vals, 1, <<>>)),
               array |-> found.array] :
            found \in {find_dlcs(alt_aal)}} : TRUE

\* np.ma.masked_inside(array, v1, v2) of an array of quotients: a new array
masked_inside(array, v1, v2) ==
    [data |-> array.data,
     mask |-> [i \in 1..Len(array.data) |->
                  \/ array.mask[i]
                  \/ (/\ ~RatLess(array.data[i], Rat(v1))
                      /\ ~RatLess(Rat(v2), array.data[i]))]]

\* The 0/1 workspace of a mask
MaskBits(array) == [i \in 1..Len(array.mask) |-> IF array.mask[i] THEN 1 ELSE 0]

\* flight_phase.py 1400-1409: TurningInAir.derive. repair_mask is called
\* with the array alone: frequency 1, repair_duration REPAIR_DURATION, no copy.
TurningInAir_derive(rate_of_turn, airborne) ==
    LET rep == repair_mask(rate_of_turn, 1, REPAIR_DURATION, FALSE, FALSE, FALSE, FALSE, None)
        turning == masked_inside(rep.ret.v, 0 - RATE_OF_TURN_FOR_FLIGHT_PHASES,
                                 RATE_OF_TURN_FOR_FLIGHT_PHASES)
        turn_slices == clump_unmasked(MaskBits(turning), FALSE)
    IN IF rep.ret.tag # "array" THEN rep
       ELSE [ret |-> List(SelectSeq(turn_slices,
                             LAMBDA turn_slice :
                                 \E k \in 1..Len(airborne) :
                                     entire_slice_within_slice(turn_slice, airborne[k]))),
             array |-> rep.array]

\* library.py 3019-3032: is_index_within_slice(index, _slice)
is_index_within_slice(index, this_slice) ==
    IF this_slice.start = None /\ this_slice.stop = None THEN TRUE
    ELSE IF this_slice.start = None THEN index < this_slice.stop
    ELSE IF this_slice.stop = None THEN index >= this_slice.start
    ELSE this_slice.start <= index /\ index < this_slice.stop

RECURSIVE PotentialRtos(_, _)
\* flight_phase.py 1176-1180: the acceleration runs inside each grounded
\* section, in the order of the sections.
PotentialRtos(groundeds, accel_lon_slices) ==
    IF groundeds = <<>> THEN <<>>
    ELSE SelectSeq(accel_lon_slices,
                   LAMBDA s : /\ is_index_within_slice(s.start, Head(groundeds))
                              /\ is_index_within_slice(s.stop, Head(groundeds)))
         \o PotentialRtos(Tail(groundeds), accel_lon_slices)

RECURSIVE RtoPhases(_, _, _, _, _)
\* flight_phase.py 1182-1193: a run still grounded a minute later is a
\* rejected takeoff, from 10 s before it to 30 s after it.
RtoPhases(potential_rtos, groundeds, size, hz, phases) ==
    IF potential_rtos = <<>> THEN phases
    ELSE LET potential_rto == Head(potential_rtos)
             check_grounded_idx == Min2(potential_rto.stop + 60 * hz, size - 1)
         IN RtoPhases(Tail(potential_rtos), groundeds, size, hz,
                      IF \E k \in 1..Len(groundeds) :
                             is_index_within_slice(check_grounded_idx, groundeds[k])
                      THEN create_phase(phases,
                                        <<Slice(Max2(potential_rto.start - 10 * hz, 0),
                                                Min2(potential_rto.stop + 30 * hz, size))>>)
                      ELSE phases)

\* flight_phase.py 1166-1193: RejectedTakeoff.derive of a series that is not
\* empty. moving_average repairs the array it is given.
\* np.ma.copy(accel_lon_smoothed) with mask |= accel_lon_masked <= threshold
AccelLonMasked(accel_lon_smoothed) ==
    [data |-> accel_lon_smoothed.data,
     mask |-> [i \in 1..Len(accel_lon_smoothed.data) |->
                  \/ accel_lon_smoothed.mask[i]
                  \/ ~RatLess(TAKEOFF_ACCELERATION_THRESHOLD, accel_lon_smoothed.data[i])]]

RejectedTakeoff_derive(accel_lon, groundeds, hz) ==
    CHOOSE derived \in
        {IF smoothed.ret.tag # "array" THEN smoothed
         ELSE [ret |-> CHOOSE phases \in
                           {List(RtoPhases(PotentialRtos(groundeds, accel_lon_slices),
                                           groundeds, Len(accel_lon.data), hz, <<>>)) :
                               accel_lon_slices \in
                                   {clump_unmasked(MaskBits(AccelLonMasked(smoothed.ret.v)),
                                                   FALSE)}} : TRUE,
               array |-> smoothed.array] :
            smoothed \in {moving_average(accel_lon, 9, NoWeightings, TRUE)}} : TRUE

\* Series of up to MaxFrameLen samples at two levels, masked in any pattern.
MaxFrameLen == 4

FrameLevels == {0, 1000}

FrameArrays ==
    UNION {[data : [1..n -> FrameLevels], mask : [1..n -> BOOLEAN]] : n \in 1..MaxFrameLen}

\* The Airborne or Grounded sections given with the series.
FrameSections == {<<>>, <<Slice(0, MaxFrameLen + 10)>>, <<Slice(1, 3)>>}

InitFrame ==
    /\ call = "start"
    /\ args \in [array : FrameArrays, sections : FrameSections, hz : {1, 2}, copy : BOOLEAN]
    /\ locals = NoLocals
    /\ ret = NoneResult

CallDescentLowClimbDerive ==
    /\ call = "start"
    /\ call' = "DescentLowClimb.derive"
    /\ LET r == DescentLowClimb_derive(args.array)
       IN ret' = r.ret /\ locals' = [array |-> r.array]
    /\ UNCHANGED args

CallTurningInAirDerive ==
    /\ call = "start"
    /\ call' = "TurningInAir.derive"
    /\ LET r == TurningInAir_derive(args.array, args.sections)
       IN ret' = r.ret /\ locals' = [array |-> r.array]
    /\ UNCHANGED args

CallRejectedTakeoffDerive ==
    /\ call = "start"
    /\ call' = "RejectedTakeoff.derive"
    /\ LET r == RejectedTakeoff_derive(args.array, args.sections, args.hz)
       IN ret' = r.ret /\ locals' = [array |-> r.array]
    /\ UNCHANGED args

\* repair_mask(array, copy=copy) with the other arguments at their defaults
CallRepairMaskCopy ==
    /\ call = "start"
    /\ call' = "repair_mask"
    /\ LET r == repair_mask(args.array, 1, REPAIR_DURATION, FALSE, args.copy,
                            FALSE, FALSE, None)
       IN ret' = r.ret /\ locals' = [array |-> r.array]
    /\ UNCHANGED args

NextFrame ==
    \/ CallDescentLowClimbDerive
    \/ CallTurningInAirDerive
    \/ CallRejectedTakeoffDerive
    \/ CallRepairMaskCopy

SpecFrame == InitFrame /\ [][NextFrame]_vars

\* The series of the caller holds the data and the mask it held before.
InputUnchanged ==
    /\ locals.array.mask = args.array.mask
    /\ \A i \in 1..Len(args.array.data) : RatEq(locals.array.data[i], Rat(args.array.data[i]))

\* C24: after a derivation returns, the data and the mask of each input
\* series equal what they were before the call (DescentLowClimb through
\* find_dlcs, RejectedTakeoff through moving_average, TurningInAir); and
\* repair_mask changes its argument only when called with copy=False.
C24_DerivationLeavesInputUnchanged ==
    /\ call \in {"DescentLowClimb.derive", "TurningInAir.derive", "RejectedTakeoff.derive"}
           => InputUnchanged
    /\ (call = "repair_mask" /\ args.copy) => InputUnchanged

(***************************************************************************)
(* SpecTaxi: Mobile.derive, then TaxiOut.derive or TaxiIn.derive with the  *)
(* Mobile section it gave.                                                 *)
(***************************************************************************)
RECURSIVE TaxiOutLoop(_, _, _)
\* flight_phase.py 1381-1386: for gnd in gnds
TaxiOutLoop(gnds, toff, phases) ==
    IF gnds = <<>> THEN phases
    ELSE LET gnd == Head(gnds)
         IN TaxiOutLoop(Tail(gnds), toff,
                        IF slices_overlap(gnd, toff)
                        THEN create_phase(phases, <<Slice(gnd.start + 1, toff.start - 1)>>)
                        ELSE phases)

\* flight_phase.py 1378-1386: TaxiOut.derive
TaxiOut_derive(gnds, toffs) ==
    IF toffs # <<>> THEN List(TaxiOutLoop(gnds, toffs[1], <<>>)) ELSE NoneResult

RECURSIVE TaxiInLoop(_, _, _)
\* flight_phase.py 1365-1370: for gnd in gnds
TaxiInLoop(gnds, land, phases) ==
    IF gnds = <<>> THEN phases
    ELSE LET gnd == Head(gnds)
         IN TaxiInLoop(Tail(gnds), land,
                       IF slices_overlap(gnd, land)
                       THEN create_phase(phases, <<Slice(land.stop, gnd.stop)>>)
                       ELSE phases)

\* flight_phase.py 1361-1370: TaxiIn.derive; lands holds at most one
\* Landing, which get_last() gives.
TaxiIn_derive(gnds, lands) ==
    IF lands = <<>> THEN NoneResult ELSE List(TaxiInLoop(gnds, lands[Len(lands)], <<>>))

\* Flights of up to MaxTaxiLen samples: the rate of turn and the groundspeed
\* are still or at the limit that counts as moving, the takeoff comes
\* before the landing.
MaxTaxiLen == 4

TaxiArrays(level) ==
    UNION {[data : [1..n -> {0, level}], mask : {[i \in 1..n |-> FALSE]}] : n \in 1..MaxTaxiLen}

TaxiRunways ==
    {Slice(p[1], p[2]) : p \in {q \in (0..MaxTaxiLen) \X (0..MaxTaxiLen) : q[1] < q[2]}}

TaxiArgs ==
    {a \in [rot : TaxiArrays(HEADING_RATE_FOR_MOBILE),
            gspd : [recorded : BOOLEAN, array : TaxiArrays(GROUNDSPEED_FOR_MOBILE)],
            toffs : {<<>>} \cup {<<s>> : s \in TaxiRunways},
            lands : {<<>>} \cup {<<s>> : s \in TaxiRunways}] :
        /\ Len(a.gspd.array.data) = Len(a.rot.data)
        /\ ~a.gspd.recorded => \A i \in 1..Len(a.rot.data) : a.gspd.array.data[i] = 0
        /\ a.toffs # <<>> => a.toffs[1].stop <= Len(a.rot.data)
        /\ a.lands # <<>> => a.lands[1].stop <= Len(a.rot.data)
        /\ (a.toffs # <<>> /\ a.lands # <<>>) => a.toffs[1].stop <= a.lands[1].start}

InitTaxi ==
    /\ call = "start"
    /\ args \in TaxiArgs
    /\ locals = NoLocals
    /\ ret = NoneResult

\* locals.gnds holds the sections of the Mobile node.
CallMobileBeforeTaxi ==
    /\ call = "start"
    /\ call' = "Mobile.derive"
    /\ ret' = Mobile_derive([array |-> args.rot], args.gspd, args.toffs, args.lands)
    /\ locals' = [gnds |-> IF ret'.tag = "list" THEN ret'.v ELSE <<>>]
    /\ UNCHANGED args

CallTaxiOutDerive ==
    /\ call = "Mobile.derive"
    /\ ret.tag = "list"
    /\ call' = "TaxiOut.derive"
    /\ ret' = TaxiOut_derive(locals.gnds, args.toffs)
    /\ UNCHANGED <<args, locals>>

CallTaxiInDerive ==
    /\ call = "Mobile.derive"
    /\ ret.tag = "list"
    /\ call' = "TaxiIn.derive"
    /\ ret' = TaxiIn_derive(locals.gnds, args.lands)
    /\ UNCHANGED <<args, locals>>

NextTaxi == CallMobileBeforeTaxi \/ CallTaxiOutDerive \/ CallTaxiInDerive

SpecTaxi == InitTaxi /\ [][NextTaxi]_vars

\* Every interval in the result has start <= stop.
StartNotAfterStop ==
    ret.tag = "list" => \A k \in 1..Len(ret.v) : ret.v[k].start <= ret.v[k].stop

C25_TaxiOutOrdered == call = "TaxiOut.derive" => StartNotAfterStop

C25_TaxiInOrdered == call = "TaxiIn.derive" => StartNotAfterStop

\* C25: every interval TaxiOut.derive and TaxiIn.derive emit for a Mobile
\* section that overlaps the takeoff or the landing has start <= stop.
C25_TaxiIntervalsOrdered == C25_TaxiOutOrdered /\ C25_TaxiInOrdered

(***************************************************************************)
(* SpecClimbDescent: Climb.derive and Descent.derive on lists of KTIs.     *)
(* A KTI list is the sequence of its indexes; None orders below every      *)
(* index, as Python 2 has it.                                              *)
(***************************************************************************)
RECURSIVE ClosestToc(_, _, _)
\* flight_phase.py 424-431: the scan of the TOCs for one Climb Start
ClosestToc(eot, toc_list, closest_toc) ==
    IF toc_list = <<>> THEN closest_toc
    ELSE LET this_toc == Head(toc_list)
         IN ClosestToc(eot, Tail(toc_list),
                       IF eot < this_toc /\ (this_toc < closest_toc \/ closest_toc = None)
                       THEN this_toc ELSE closest_toc)

\* flight_phase.py 412-433: Climb.derive(toc, eot, bod)
Climb_derive(toc, eot) ==
    List([k \in 1..Len(eot) |-> Slice(eot[k], ClosestToc(eot[k], toc, None))])

RECURSIVE ClosestTod(_, _, _)
\* flight_phase.py 538-542: the scan of the TODs for one Bottom Of Descent
ClosestTod(bod, tod_list, closest_tod) ==
    IF tod_list = <<>> THEN closest_tod
    ELSE LET this_tod == Head(tod_list)
         IN ClosestTod(bod, Tail(tod_list),
                       IF bod > this_tod /\ this_tod > closest_tod
                       THEN this_tod ELSE closest_tod)

\* flight_phase.py 526-546: Descent.derive(tod_set, bod_set)
Descent_derive(tod_set, bod_set) ==
    List([k \in 1..Len(bod_set) |-> Slice(ClosestTod(bod_set[k], tod_set, None), bod_set[k])])

\* Up to MaxClimbKtis KTIs of one name, at distinct indexes up to
\* MaxKtiIndex, in ascending order.
MaxClimbKtis == 3

MaxKtiIndex == 5

AscendingKtis ==
    UNION {{s \in [1..n -> 0..MaxKtiIndex] : \A k \in 1..(n - 1) : s[k] < s[k + 1]} :
              n \in 0..MaxClimbKtis}

InitClimbDescent ==
    /\ call = "start"
    /\ args \in [starts : AscendingKtis, ends : AscendingKtis]
    /\ locals = NoLocals
    /\ ret = NoneResult

\* args.starts are the Climb Starts, args.ends the Tops Of Climb.
CallClimbDerive ==
    /\ call = "start"
    /\ call' = "Climb.derive"
    /\ ret' = Climb_derive(args.ends, args.starts)
    /\ UNCHANGED <<args, locals>>

\* args.starts are the Tops Of Descent, args.ends the Bottoms Of Descent.
CallDescentDerive ==
    /\ call = "start"
    /\ call' = "Descent.derive"
    /\ ret' = Descent_derive(args.starts, args.ends)
    /\ UNCHANGED <<args, locals>>

NextClimbDescent == CallClimbDerive \/ CallDescentDerive

SpecClimbDescent == InitClimbDescent /\ [][NextClimbDescent]_vars

\* Two half-open intervals share a sample position; a bound None is open.
Overlapping(a, b) ==
    /\ a.start = None \/ b.stop = None \/ a.start < b.stop
    /\ b.start = None \/ a.stop = None \/ b.start < a.stop

\* The intervals are in ascending order and no two of them overlap.
AscendingDisjoint(phases) ==
    \A j, k \in 1..Len(phases) :
        j < k => /\ ~Overlapping(phases[j], phases[k])
                 /\ phases[j].start <= phases[k].start

C26_ClimbDisjoint == call = "Climb.derive" => AscendingDisjoint(ret.v)

C26_DescentDisjoint == call = "Descent.derive" => AscendingDisjoint(ret.v)

\* C26: the intervals Climb.derive emits for any Climb Start and Top Of
\* Climb KTIs, and those Descent.derive emits for any Top Of Descent and
\* Bottom Of Descent KTIs, are pairwise non-overlapping and ascending.
C26_PhaseIntervalsDisjointAscending == C26_ClimbDisjoint /\ C26_DescentDisjoint

(***************************************************************************)
(* SpecCcd: ClimbCruiseDescent.derive for one Airborne section, the while  *)
(* loop over the peaks one iteration at a time.                            *)
(***************************************************************************)
\* settings: the altitude step below which cycle_finder drops a reversal (ft)
HYSTERESIS_FPALT_CCD == 500

\* flight_phase.py 352-355: np.ma.where(altitudes > 10000,
\* (altitudes - 10000) / 10.0 + 10000, altitudes), for altitudes in tens of feet
AltSquash(altitudes) ==
    [data |-> [i \in 1..Len(altitudes.data) |->
                  IF altitudes.data[i] > 10000
                  THEN (altitudes.data[i] - 10000) \div 10 + 10000
                  ELSE altitudes.data[i]],
     mask |-> altitudes.mask]

\* flight_phase.py 365-384: one iteration of "while n < n_vals - 1". l holds
\* n, pk_idxs, pk_vals and the phases created so far (positions from 1).
CcdIteration(l) ==
    LET n == l.n
        n_vals == Len(l.pk_vals)
        pk_val == l.pk_vals[n + 1]
        pk_idx == l.pk_idxs[n + 1]
        next_pk_val == l.pk_vals[n + 2]
        next_pk_idx == l.pk_idxs[n + 2]
    IN IF pk_val > next_pk_val
       THEN [l EXCEPT !.phases = create_phase(@, <<Slice(None, next_pk_idx)>>), !.n = n + 1]
       ELSE IF n + 2 < n_vals
       THEN IF l.pk_vals[n + 3] < next_pk_val
            THEN [l EXCEPT !.phases = create_phase(@, <<Slice(pk_idx, l.pk_idxs[n + 3])>>),
                           !.n = n + 2]
            ELSE l
       ELSE [l EXCEPT !.phases = create_phase(@, <<Slice(pk_idx, None)>>), !.n = n + 1]

\* Altitudes of up to MaxCcdLen samples at three levels, at most one masked;
\* the Airborne section is the whole series or the series from its second
\* sample. An execution is followed for MaxCcdIterations iterations.
MaxCcdLen == 7

MaxCcdIterations == 4

CcdLevels == {0, 1000, 2000}

CcdArrays(longest) ==
    UNION {{[data |-> d, mask |-> m] : d \in [1..n -> CcdLevels], m \in MasksOf(n)} :
              n \in 1..longest}

InitCcd ==
    /\ call = "start"
    /\ args \in {a \in [array : CcdArrays(MaxCcdLen), air : {Slice(0, None), Slice(1, None)}] :
                    a.air.start < Len(a.array.data)}
    /\ locals = NoLocals
    /\ ret = NoneResult

\* flight_phase.py 346-363: the peaks of the section, n = 0
CcdFindPeaks ==
    /\ call = "start"
    /\ \E pk \in {cycle_finder(AltSquash(SubArray(args.array,
                                                  Slice(args.air.start, Len(args.array.data)))),
                               HYSTERESIS_FPALT_CCD, TRUE)} :
           IF pk.tag = "peaks"
           THEN /\ call' = "while"
                /\ locals' = [n |-> 0,
                              pk_idxs |-> [k \in 1..Len(pk.idxs) |->
                                              pk.idxs[k] + OrElse(args.air.start, 0)],
                              pk_vals |-> pk.vals,
                              phases |-> <<>>,
                              iterations |-> 0]
                /\ ret' = ret
           ELSE /\ call' = "ClimbCruiseDescent.derive"
                /\ locals' = locals
                /\ ret' = List(<<>>)
    /\ UNCHANGED args

\* One iteration of the loop; locals.iterations counts them.
CcdIterate ==
    /\ call = "while"
    /\ locals.n < Len(locals.pk_vals) - 1
    /\ locals.iterations < MaxCcdIterations
    /\ locals' = [CcdIteration(locals) EXCEPT !.iterations = @ + 1]
    /\ UNCHANGED <<call, args, ret>>

\* The loop is left: the derivation returns with the phases it created.
CcdReturn ==
    /\ call = "while"
    /\ ~(locals.n < Len(locals.pk_vals) - 1)
    /\ call' = "ClimbCruiseDescent.derive"
    /\ ret' = List(locals.phases)
    /\ UNCHANGED <<args, locals>>

NextCcd == CcdFindPeaks \/ CcdIterate \/ CcdReturn

SpecCcd == InitCcd /\ [][NextCcd]_vars

\* C27: every iteration of the while loop of ClimbCruiseDescent.derive
\* increases n, for every peak list cycle_finder returns, so that the loop
\* ends and the derivation terminates.
C27_EveryIterationIncreasesN ==
    [][(call = "while" /\ call' = "while") => locals'.n > locals.n]_vars

(***************************************************************************)
(* SpecDuration: derivations that hold a duration, on series sampled at    *)
(* args.hz samples per second.                                             *)
(***************************************************************************)
\* settings: the vertical speed below which the aircraft is descending (fpm)
VERTICAL_SPEED_FOR_DESCENT_PHASE == 0 - 500

\* flight_phase.py 1323-1327: Takeoff5MinRating.derive
Takeoff5MinRating_derive(toffs) ==
    List([k \in 1..Len(toffs) |-> Slice(toffs[k].start, toffs[k].start + 300)])

RECURSIVE GoAroundRatingLoop(_, _, _)
\* flight_phase.py 1343-1349: tdwn is the list of the Touchdown indexes
GoAroundRatingLoop(gas, tdwn, phases) ==
    IF gas = <<>> THEN phases
    ELSE LET startpoint == Head(gas).start
             endpoint == IF tdwn # <<>>
                         THEN Min2(Head(gas).start + 300, tdwn[Len(tdwn)])
                         ELSE Head(gas).start + 300
         IN GoAroundRatingLoop(Tail(gas), tdwn,
                               IF startpoint < endpoint
                               THEN create_phase(phases, <<Slice(startpoint, endpoint)>>)
                               ELSE phases)

\* flight_phase.py 1337-1349: GoAround5MinRating.derive
GoAround5MinRating_derive(gas, tdwn) == List(GoAroundRatingLoop(gas, tdwn, <<>>))

RECURSIVE DescendingLoop(_, _, _)
\* flight_phase.py 518-522: slices_remove_small_slices is called with the
\* list alone: time_limit 10, hz 1.
DescendingLoop(vert_spd, airs, phases) ==
    IF airs = <<>> THEN phases
    ELSE LET air == Head(airs)
             descending == masked_greater(SubArray(vert_spd, air),
                                          VERTICAL_SPEED_FOR_DESCENT_PHASE)
             desc_slices == slices_remove_small_slices(
                                clump_unmasked(MaskBits(descending), FALSE), 10, 1, None)
         IN DescendingLoop(vert_spd, Tail(airs),
                           create_phase(phases, shift_slices(desc_slices, air.start)))

\* flight_phase.py 514-522: Descending.derive
Descending_derive(vert_spd, airs) == List(DescendingLoop(vert_spd, airs, <<>>))

\* A series has 1..MaxDurationSegments segments, each still (0), strong
\* (1000) or masked, of a length on either side of 10 and of 20 samples.
MaxDurationSegments == 3

DurationLengths == {1, 10, 11, 21}

DurationShapes == [kind : {"still", "strong", "masked"}, length : DurationLengths]

DurationSegments ==
    UNION {[1..n -> DurationShapes] : n \in 1..MaxDurationSegments}

RECURSIVE SeriesOf(_, _)
\* The series of the segments, a strong segment at the level given.
SeriesOf(segments, level) ==
    IF segments = <<>> THEN [data |-> <<>>, mask |-> <<>>]
    ELSE LET s == Head(segments)
             rest == SeriesOf(Tail(segments), level)
         IN [data |-> [i \in 1..s.length |-> IF s.kind = "strong" THEN level ELSE 0]
                      \o rest.data,
             mask |-> [i \in 1..s.length |-> s.kind = "masked"] \o rest.mask]

DurationFrequencies == {1, 2}

\* The start of the Takeoff or of the Go Around And Climbout, and the index
\* of the last Touchdown (None without one).
RatingStarts == {0, 5, 700}

RatingTouchdowns == {None, 100, 400, 650}

InitDuration ==
    /\ call = "start"
    /\ args \in [hz : DurationFrequencies, segments : DurationSegments,
                 start : {0}, tdwn : {None}]
            \cup [hz : DurationFrequencies, segments : {<<>>},
                  start : RatingStarts, tdwn : RatingTouchdowns]
    /\ locals = NoLocals
    /\ ret = NoneResult

CallTakeoff5MinRatingDerive ==
    /\ call = "start"
    /\ args.segments = <<>>
    /\ call' = "Takeoff5MinRating.derive"
    /\ ret' = Takeoff5MinRating_derive(<<Slice(args.start, args.start + 40)>>)
    /\ UNCHANGED <<args, locals>>

CallGoAround5MinRatingDerive ==
    /\ call = "start"
    /\ args.segments = <<>>
    /\ call' = "GoAround5MinRating.derive"
    /\ ret' = GoAround5MinRating_derive(<<Slice(args.start, args.start + 40)>>,
                                        IF args.tdwn = None THEN <<>> ELSE <<args.tdwn>>)
    /\ UNCHANGED <<args, locals>>

\* The vertical speed is -1000 fpm in the strong segments; one Airborne
\* section holds the whole series.
CallDescendingDerive ==
    /\ call = "start"
    /\ args.segments # <<>>
    /\ call' = "Descending.derive"
    /\ \E vert_spd \in {SeriesOf(args.segments, 0 - 1000)} :
           ret' = Descending_derive(vert_spd, <<Slice(0, Len(vert_spd.data))>>)
    /\ UNCHANGED <<args, locals>>

\* The rate of turn is 1000 in the strong segments; one Airborne section
\* holds the whole series.
CallTurningInAirRepair ==
    /\ call = "start"
    /\ args.segments # <<>>
    /\ call' = "TurningInAir.derive"
    /\ \E rate_of_turn \in {SeriesOf(args.segments, 1000)} :
           \E r \in {TurningInAir_derive(rate_of_turn,
                                         <<Slice(0, Len(rate_of_turn.data))>>)} :
               ret' = r.ret
    /\ UNCHANGED <<args, locals>>

NextDuration ==
    \/ CallTakeoff5MinRatingDerive
    \/ CallGoAround5MinRatingDerive
    \/ CallDescendingDerive
    \/ CallTurningInAirRepair

SpecDuration == InitDuration /\ [][NextDuration]_vars

\* The rating phase spans 300 seconds.
C28_TakeoffRatingSpans ==
    call = "Takeoff5MinRating.derive" =>
        \A k \in 1..Len(ret.v) : ret.v[k].stop - ret.v[k].start = 300 * args.hz

\* The rating phase spans 300 seconds or ends at the last touchdown.
C28_GoAroundRatingSpans ==
    call = "GoAround5MinRating.derive" =>
        \A k \in 1..Len(ret.v) :
            \/ ret.v[k].stop - ret.v[k].start = 300 * args.hz
            \/ args.tdwn # None /\ ret.v[k].stop = args.tdwn

\* No descending run of 10 seconds or less is kept.
C28_DescendingDropsShortRuns ==
    call = "Descending.derive" =>
        \A k \in 1..Len(ret.v) : ret.v[k].stop - ret.v[k].start > 10 * args.hz

\* A masked run between two turns
GapBetweenTurns ==
    /\ Len(args.segments) = 3
    /\ args.segments[1].kind = "strong"
    /\ args.segments[2].kind = "masked"
    /\ args.segments[3].kind = "strong"

\* The turn runs through the gap exactly when the gap is of at most
\* REPAIR_DURATION seconds.
C28_TurningRepairLimit ==
    (call = "TurningInAir.derive" /\ GapBetweenTurns) =>
        ((Len(ret.v) = 1) <=> (args.segments[2].length <= REPAIR_DURATION * args.hz))

\* C28: durations are seconds converted to samples with the sample rate of
\* the series: the 5 minute rating phases span 300 x hz samples, Descending
\* drops runs of 10 x hz samples or less, and the mask repair of
\* TurningInAir is limited to REPAIR_DURATION x hz samples.
C28_DurationsInSeconds ==
    /\ C28_TakeoffRatingSpans
    /\ C28_GoAroundRatingSpans
    /\ C28_DescendingDropsShortRuns
    /\ C28_TurningRepairLimit

(***************************************************************************)
(* SpecFast: one call of Fast.derive.                                      *)
(***************************************************************************)
\* settings: the airspeed above which the aircraft may fly (knots)
AIRSPEED_THRESHOLD == 80

\* np.ma.masked_less(array, value): a new array
masked_less(array, value) ==
    [data |-> array.data,
     mask |-> [i \in 1..Len(array.data) |-> array.mask[i] \/ array.data[i] < value]]

\* "if x" of an index or None: neither None nor 0
Truthy(x) == x # None /\ x # 0

RECURSIVE FastLoop(_, _, _)
\* flight_phase.py 613-622: for fast_sample in fast_samples
FastLoop(airspeed, fast_samples, phases) ==
    IF fast_samples = <<>> THEN phases
    ELSE LET fast_sample == Head(fast_samples)
             start == IF Abs(airspeed.data[fast_sample.start + 1] - AIRSPEED_THRESHOLD) > 20
                      THEN None ELSE fast_sample.start
             stop == IF Abs(airspeed.data[fast_sample.stop] - AIRSPEED_THRESHOLD) > 30
                     THEN None ELSE fast_sample.stop
         IN FastLoop(airspeed, Tail(fast_samples),
                     IF Truthy(start) \/ Truthy(stop)
                     THEN create_phase(phases, <<Slice(start, stop)>>)
                     ELSE phases)

\* flight_phase.py 597-622: Fast.derive(airspeed)
Fast_derive(airspeed) ==
    List(FastLoop(airspeed,
                  clump_unmasked(MaskBits(masked_less(airspeed, AIRSPEED_THRESHOLD)), FALSE),
                  <<>>))

\* Airspeeds of up to MaxFastLen samples: slow, at the threshold, 25 kt and
\* 40 kt above it; at most one sample masked.
MaxFastLen == 4

FastLevels == {0, 80, 105, 120}

FastArrays ==
    UNION {{[data |-> d, mask |-> m] : d \in [1..n -> FastLevels], m \in MasksOf(n)} :
              n \in 1..MaxFastLen}

InitFast ==
    /\ call = "start"
    /\ args \in [airspeed : FastArrays]
    /\ locals = NoLocals
    /\ ret = NoneResult

CallFastDerive ==
    /\ call = "start"
    /\ call' = "Fast.derive"
    /\ ret' = Fast_derive(args.airspeed)
    /\ UNCHANGED <<args, locals>>

NextFast == CallFastDerive

SpecFast == InitFast /\ [][NextFast]_vars

\* C29: Fast.derive creates at most one phase for any airspeed series,
\* whatever the number of runs at or above AIRSPEED_THRESHOLD and whatever
\* samples are masked or below the threshold.
C29_FastAtMostOnePhase == call = "Fast.derive" => Len(ret.v) <= 1

====
